---- MODULE Spec2Model ----
(***************************************************************************)
(* The Mafia game engine of LLMafia: the entity model (src/src/models.py)  *)
(* and the orchestrator and phase controllers (src/src/controllers.py).    *)
(*                                                                         *)
(* What a player's language model answers is an input, drawn here from     *)
(* small sets: a ballot, and the id its reply to the night prompt names,   *)
(* from which BaseAgent.generate_night_action (src/src/agents.py) builds   *)
(* the Action.  pc is the position of GameController.run_game in its loop. *)
(* Observers are the callbacks registered with the controller; an agent's  *)
(* memory is what BaseAgent.update_memory has ingested for its player.     *)
(***************************************************************************)
EXTENDS Integers, Sequences, FiniteSets, TLC

VARIABLES role, status, protected,
          current_round, current_phase,
          events, votes, actions, messages,
          game_over, winning_team,
          pc, ret, ballots,
          known_roles, name, config, player_names,
          action_callbacks, action_round_num, voting_round_num, replies,
          callbacks, received, memory, saved_memory,
          error, result, executions

vars == <<role, status, protected, current_round, current_phase,
          events, votes, actions, messages, game_over, winning_team,
          pc, ret, ballots, known_roles, name, config, player_names,
          action_callbacks, action_round_num, voting_round_num, replies,
          callbacks, received, memory, saved_memory, error, result,
          executions>>

\* what the discussions, the orchestrator and a direct win check leave alone:
\* the configuration, the names, the 'action' callbacks, the action-round and
\* voting-round loops and what the agents' models last replied to the night
\* prompt
night_setup == <<name, config, player_names, action_callbacks, action_round_num,
                 voting_round_num, replies>>

\* what only an agent's update_memory changes
agent_memory == <<memory, saved_memory>>

\* what only a failed call, a visibility query and a request of the web UI
\* change
call_outcome == <<error, result, executions>>

----------------------------------------------------------------------------
(* Entity model (models.py)                                                *)

\* ids in insertion order of GameState.players (player_1, player_2, ...)
PlayerOrder == <<"player_1", "player_2", "player_3">>

Players == {PlayerOrder[i] : i \in 1..Len(PlayerOrder)}

PlayerRole == {"VILLAGER", "MAFIA", "DOCTOR", "DETECTIVE", "GODFATHER"}

PlayerStatus == {"ALIVE", "DEAD"}

TeamAlignment == {"VILLAGE", "MAFIA"}

\* GamePhase, in declaration order; advance_phase's phase_order is the same list
phase_order == <<"DAY_DISCUSSION", "DAY_VOTING", "NIGHT_MAFIA_DISCUSSION", "NIGHT_ACTION">>

GamePhase == {phase_order[i] : i \in 1..Len(phase_order)}

None == "None"

\* Player.team
team(r) == IF r \in {"MAFIA", "GODFATHER"} THEN "MAFIA" ELSE "VILLAGE"

\* Player.is_alive, for a status map st
is_alive(st, p) == st[p] = "ALIVE"

\* every player taken for alive
alive_players_all(st) == PlayerOrder

\* GameState.alive_players, in insertion order
alive_players(st) == SelectSeq(PlayerOrder, LAMBDA p : is_alive(st, p))

\* alive_mafia_count with the is_alive test forgotten
alive_mafia_count_all(rl, st) ==
    Cardinality({p \in Players : team(rl[p]) = "MAFIA"})

\* GameState.alive_mafia_count
alive_mafia_count(rl, st) ==
    Cardinality({p \in Players : is_alive(st, p) /\ team(rl[p]) = "MAFIA"})

\* GameState.alive_village_count
alive_village_count(rl, st) ==
    Cardinality({p \in Players : is_alive(st, p) /\ team(rl[p]) = "VILLAGE"})

\* check_game_over with a strict comparison: parity is no Mafia win
check_game_over_strict(rl, st, go, wt) ==
    IF alive_mafia_count(rl, st) = 0
    THEN [ret |-> TRUE, game_over |-> TRUE, winning_team |-> "VILLAGE"]
    ELSE IF alive_mafia_count(rl, st) > alive_village_count(rl, st)
    THEN [ret |-> TRUE, game_over |-> TRUE, winning_team |-> "MAFIA"]
    ELSE [ret |-> FALSE, game_over |-> go, winning_team |-> wt]

\* GameState.check_game_over: the returned value and the two fields it may set
GameState_check_game_over(rl, st, go, wt) ==
    IF alive_mafia_count(rl, st) = 0
    THEN [ret |-> TRUE, game_over |-> TRUE, winning_team |-> "VILLAGE"]
    ELSE IF alive_mafia_count(rl, st) >= alive_village_count(rl, st)
    THEN [ret |-> TRUE, game_over |-> TRUE, winning_team |-> "MAFIA"]
    ELSE [ret |-> FALSE, game_over |-> go, winning_team |-> wt]

\* GameEvent, stamped by _add_game_event with the current round and phase;
\* outcome and about abstract the description text: about is the player the
\* description of a night event names
GameEvent(type, outcome, public, targets, rnd, ph) ==
    [event_type |-> type, round_num |-> rnd, phase |-> ph,
     outcome |-> outcome, about |-> None, public |-> public, targets |-> targets]

\* _add_game_event putting the new event in front of the list
add_game_event_in_front(evs, type, outcome, public, targets, rnd, ph) ==
    <<GameEvent(type, outcome, public, targets, rnd, ph)>> \o evs

\* GameController._add_game_event on an event list
add_game_event(evs, type, outcome, public, targets, rnd, ph) ==
    Append(evs, GameEvent(type, outcome, public, targets, rnd, ph))

\* _add_game_event with a description that names a player
add_game_event_about(evs, type, outcome, about, public, targets, rnd, ph) ==
    Append(evs, [GameEvent(type, outcome, public, targets, rnd, ph)
                    EXCEPT !.about = about])

\* the entries a step appends to a log
Appended(old, new) == SubSeq(new, Len(old) + 1, Len(new))

\* Message (sender_name is the name of the player sender_id)
Message(sender, content, rnd, ph, public, recipients) ==
    [sender_id |-> sender, content |-> content, round_num |-> rnd, phase |-> ph,
     public |-> public, recipients |-> recipients]

\* Vote
Vote(voter, target, rnd) ==
    [voter_id |-> voter, target_id |-> target, round_num |-> rnd, phase |-> "DAY_VOTING"]

\* Action, as BaseAgent.generate_night_action builds it
Action(actor, type, target, rnd) ==
    [actor_id |-> actor, action_type |-> type, target_id |-> target,
     round_num |-> rnd, phase |-> "NIGHT_ACTION"]

----------------------------------------------------------------------------
(* Bounds and configuration                                                *)

\* largest round a directly constructed GameState starts in
MaxStartRound == 2

\* config phases.day.discussion_rounds, default of DayDiscussionController.run
discussion_rounds == 1

\* config phases.night.mafia_discussion_rounds, default of the controller
mafia_discussion_rounds == 2

\* config mechanics.godfather_appears_innocent (default)
godfather_appears_innocent == TRUE

\* config mechanics.reveal_role_on_death (default)
reveal_role_on_death == TRUE

\* config phases.night.action_time (default): action rounds of a night phase
action_time == 1

\* largest action_time explored
MaxActionTime == 2

\* config phases.day.voting_time, default of DayVotingController.run: voting
\* rounds of a voting phase
voting_time == 1

\* largest voting_time explored
MaxVotingTime == 2

\* config phases.day.enable_reactions, default of _run_discussion_round
enable_reactions == FALSE

\* config phases.night.enable_mafia_reactions, default of
\* _run_mafia_discussion_round
enable_mafia_reactions == FALSE

\* largest count of one role in a role distribution, longest list of names
MaxRoleCount == 2
MaxNames == 4

\* config agent.memory_limit as _initialize_agents defaults it: None, written
\* 0 (update_memory tests "if self.memory_limit", false for None and for 0)
memory_limit == 0

\* longest log built by hand for a query or an agent
MaxLog == 3

\* largest number of discussion rounds configured
MaxDiscussionRounds == 2

\* largest number of observers registered with a controller
MaxCallbacks == 2

\* largest agent.memory_limit configured
MaxMemoryLimit == 2

\* largest number of next_phase requests the web UI sends
MaxRequests == 2

\* what a player's model may say in a discussion, and what it says in a game
Contents == {"aye", "nay"}
SaidInGame == "aye"

\* the names players are given
Names == {"Alice", "Bob"}

\* f"player_{i+1}" for the index i (from 0) of a name: the id of the i-th player
player_id(i) ==
    <<"player_1", "player_2", "player_3", "player_4", "player_5", "player_6">>[i]

\* the names of the players of a three-player game
DefaultNames == <<"Alice", "Bob", "Charlie">>

\* the role assignments (outcomes of the shuffle of a role distribution) explored
Deals ==
    { <<"VILLAGER", "DOCTOR", "MAFIA">>,
      <<"VILLAGER", "VILLAGER", "MAFIA">>,
      <<"GODFATHER", "DETECTIVE", "DOCTOR">>,
      <<"DETECTIVE", "MAFIA", "GODFATHER">>,
      <<"GODFATHER", "MAFIA", "DOCTOR">>,
      <<"MAFIA", "VILLAGER", "MAFIA">> }

RoleMap(d) == [p \in Players |-> d[CHOOSE i \in 1..Len(PlayerOrder) : PlayerOrder[i] = p]]

\* an agent's ballot: a player id, the empty string, or an id of no player
EmptyTarget == ""
UnknownId == "player_0"
NotAsked == "-"
BallotAnswers == Players \cup {EmptyTarget, UnknownId}

----------------------------------------------------------------------------
(* Observers (GameController.register_callback, emit_event)                *)

\* the keys of event_callbacks
callback_keys == {"message", "game_event", "action", "vote", "vote_result"}

\* event_callbacks of a new controller: no callback under any key
no_callbacks == [k \in callback_keys |-> <<>>]

\* register_callback: cbs[k] lists the callbacks registered under k in order of
\* registration, each by whether it throws when invoked; an unknown event
\* type is logged and ignored
register_callback(cbs, event_type, throws) ==
    IF event_type \in callback_keys
    THEN [cbs EXCEPT ![event_type] = Append(@, throws)]
    ELSE cbs

\* the callbacks the web UI registers (ui/app.py): one under each of
\* game_event, message, action and vote, none of which throws
ui_callbacks ==
    register_callback(
        register_callback(
            register_callback(
                register_callback(no_callbacks, "game_event", FALSE),
                "message", FALSE),
            "action", FALSE),
        "vote", FALSE)

\* an event type that is no key of event_callbacks
UnknownEventType == "elimination"

\* an observer registers one callback under every event type it knows of
register_observer(cbs, throws) ==
    register_callback(
      register_callback(
        register_callback(
          register_callback(
            register_callback(
              register_callback(cbs, "message", throws),
              "game_event", throws),
            "action", throws),
          "vote", throws),
        "vote_result", throws),
      UnknownEventType, throws)

\* the observers flags[i..] registered in turn
RECURSIVE register_observers(_, _, _)
register_observers(cbs, flags, i) ==
    IF i > Len(flags) THEN cbs
    ELSE register_observers(register_observer(cbs, flags[i]), flags, i + 1)

\* nothing received yet by the callbacks cbs
nothing_received(cbs) ==
    [k \in callback_keys |-> [i \in 1..Len(cbs[k]) |-> <<>>]]

\* emit_event with the try around the loop: the first callback that throws
\* ends the emission
emit_event_until_throw(cbs, rec, event_type, data) ==
    IF event_type \in callback_keys
    THEN [rec EXCEPT ![event_type] =
            [i \in 1..Len(cbs[event_type]) |->
                IF \A j \in 1..(i - 1) : ~cbs[event_type][j]
                THEN Append(rec[event_type][i], data)
                ELSE rec[event_type][i]]]
    ELSE rec

\* emit_event: every callback registered under event_type is invoked with
\* data, in order; what a callback throws is caught and logged.  rec[k][i] is
\* what the i-th callback under k has been invoked with.
emit_event(cbs, rec, event_type, data) ==
    IF event_type \in callback_keys
    THEN [rec EXCEPT ![event_type] =
            [i \in 1..Len(cbs[event_type]) |-> Append(rec[event_type][i], data)]]
    ELSE rec

\* emit_event for each entity of a list, in order
RECURSIVE emit_all(_, _, _, _, _)
emit_all(cbs, rec, event_type, list, i) ==
    IF i > Len(list) THEN rec
    ELSE emit_all(cbs, emit_event(cbs, rec, event_type, list[i]), event_type,
                  list, i + 1)

\* the emissions of a step: every Message appended is emitted under 'message',
\* every GameEvent under 'game_event' (by _add_game_event), every Vote under
\* 'vote', every resolved Action under 'action'; no code emits 'vote_result'
Emitted ==
    /\ received' =
          emit_all(callbacks,
            emit_all(callbacks,
              emit_all(callbacks,
                emit_all(callbacks, received,
                         "message", Appended(messages, messages'), 1),
                "game_event", Appended(events, events'), 1),
              "vote", Appended(votes, votes'), 1),
            "action", Appended(action_callbacks, action_callbacks'), 1)
    /\ UNCHANGED callbacks

----------------------------------------------------------------------------
(* Visibility (GameState) and agent memory (BaseAgent.update_memory)       *)

\* pid in a list of ids
in_list(pid, list) == \E i \in 1..Len(list) : list[i] = pid

\* get_player_events returning the public events only
get_public_events(evs, pid) == SelectSeq(evs, LAMBDA event : event.public)

\* GameState.get_player_events
get_player_events(evs, pid) ==
    SelectSeq(evs, LAMBDA event : event.public \/ in_list(pid, event.targets))

\* GameState.get_player_messages
get_player_messages(msgs, pid) ==
    SelectSeq(msgs, LAMBDA msg : \/ msg.public
                                 \/ in_list(pid, msg.recipients)
                                 \/ msg.sender_id = pid)

\* "x not in self.saved_memory": no saved entry equals x field by field
\* (GameEvent and Message are dataclasses; entries of the two classes differ)
not_in_saved(x, saved) == \A i \in 1..Len(saved) : saved[i] # x

\* the memory entry update_memory builds for an event (its description is
\* abstracted by the fields of the event that determine it)
event_entry(event) ==
    [type |-> "event", round |-> event.round_num, phase |-> event.phase,
     description |-> <<event.event_type, event.outcome, event.about, event.targets>>]

\* the memory entry update_memory builds for a message
message_entry(msg, nm) ==
    [type |-> "message", round |-> msg.round_num, phase |-> msg.phase,
     sender_name |-> nm[msg.sender_id], sender_id |-> msg.sender_id,
     content |-> msg.content, public |-> msg.public]

\* the loops of update_memory over the visible events and then over the
\* visible messages (kind tells which): m carries new_memories and saved_memory
RECURSIVE ingest(_, _, _, _, _)
ingest(list, i, kind, nm, m) ==
    IF i > Len(list) THEN m
    ELSE IF not_in_saved(<<kind, list[i]>>, m.saved)
    THEN ingest(list, i + 1, kind, nm,
                [new |-> Append(m.new, IF kind = "event" THEN event_entry(list[i])
                                       ELSE message_entry(list[i], nm)),
                 saved |-> Append(m.saved, <<kind, list[i]>>)])
    ELSE ingest(list, i + 1, kind, nm, m)

\* "Keep the most recent events": memory[-memory_limit:]
trim(mem, limit) ==
    IF limit # 0 /\ Len(mem) > limit
    THEN SubSeq(mem, Len(mem) - limit + 1, Len(mem))
    ELSE mem

\* BaseAgent.update_memory for the agent of player pid: its Player.memory and
\* its saved_memory afterwards
update_memory(pid, evs, msgs, nm, mem, saved, limit) ==
    LET m1 == ingest(get_player_events(evs, pid), 1, "event", nm,
                     [new |-> <<>>, saved |-> saved])
        m2 == ingest(get_player_messages(msgs, pid), 1, "message", nm, m1)
    IN  [memory |-> trim(mem \o m2.new, limit), saved_memory |-> m2.saved]

\* PhaseController._update_agent_memories on the logs evs and msgs: the last
\* thing run_phase does.  (The updates a controller makes while it runs see a
\* prefix of what this one sees and ingest its entries in the same order.)
Remembered(evs, msgs) ==
    /\ memory' = [p \in DOMAIN memory |->
                     update_memory(p, evs, msgs, name, memory[p], saved_memory[p],
                                   config.memory_limit).memory]
    /\ saved_memory' = [p \in DOMAIN memory |->
                     update_memory(p, evs, msgs, name, memory[p], saved_memory[p],
                                   config.memory_limit).saved_memory]

\* the updates of a phase in which events and messages interleave: updates[i]
\* tells which agents the i-th update_memory calls reach and the logs they
\* read; m[p] is the memory and saved_memory of the agent of p
RECURSIVE update_memories(_, _, _)
update_memories(updates, i, m) ==
    IF i > Len(updates) THEN m
    ELSE update_memories(updates, i + 1,
            [p \in DOMAIN m |->
                IF p \in updates[i].agents
                THEN update_memory(p, updates[i].events, updates[i].messages,
                                   name, m[p].memory, m[p].saved_memory,
                                   config.memory_limit)
                ELSE m[p]])

\* the agents' memories after the updates of a phase
RememberedEach(updates) ==
    LET m == update_memories(updates, 1,
                 [p \in DOMAIN memory |->
                     [memory |-> memory[p], saved_memory |-> saved_memory[p]]])
    IN  /\ memory' = [p \in DOMAIN memory |-> m[p].memory]
        /\ saved_memory' = [p \in DOMAIN memory |-> m[p].saved_memory]

----------------------------------------------------------------------------
(* Reactions (_collect_reactions, _collect_mafia_reactions)                *)

\* what BaseAgent.react_to_message returns
Reactions == {"agree", "disagree", "neutral"}

\* the event of a reaction: its description names the reactor, the reaction
\* and the speaker
reaction_event(type, reactor, reaction, speaker, public, targets, rnd, ph) ==
    [GameEvent(type, reaction, public, targets, rnd, ph)
        EXCEPT !.about = reactor \o " to " \o speaker]

\* _collect_reactions to a message of speaker: every other alive player
\* reacts, in turn order; re[p] is what the agent of p returns
RECURSIVE collect_reactions(_, _, _, _, _, _, _)
collect_reactions(alive, i, speaker, re, evs, rnd, ph) ==
    IF i > Len(alive) THEN evs
    ELSE IF alive[i] = speaker
    THEN collect_reactions(alive, i + 1, speaker, re, evs, rnd, ph)
    ELSE collect_reactions(alive, i + 1, speaker, re,
             Append(evs, reaction_event("reaction", alive[i], re[alive[i]],
                                        speaker, TRUE, <<alive[i], speaker>>,
                                        rnd, ph)),
             rnd, ph)

\* _collect_mafia_reactions to a message of speaker: every other player of
\* mafia_players reacts; the event is private to mafia_players
RECURSIVE collect_mafia_reactions(_, _, _, _, _, _, _)
collect_mafia_reactions(mafia_players, i, speaker, re, evs, rnd, ph) ==
    IF i > Len(mafia_players) THEN evs
    ELSE IF mafia_players[i] = speaker
    THEN collect_mafia_reactions(mafia_players, i + 1, speaker, re, evs, rnd, ph)
    ELSE collect_mafia_reactions(mafia_players, i + 1, speaker, re,
             Append(evs, reaction_event("mafia_reaction", mafia_players[i],
                                        re[mafia_players[i]], speaker, FALSE,
                                        mafia_players, rnd, ph)),
             rnd, ph)

----------------------------------------------------------------------------
(* Day discussion (DayDiscussionController)                                *)

\* the number of messages of the phase: one per alive player and round
discussion_turns(st, cfg) == cfg.discussion_rounds * Len(alive_players(st))

\* the discussion in which only the first alive player speaks
discussion_messages_first_only(st, rnd, cfg, c) ==
    LET alive == alive_players(st)
    IN  [i \in 1..(IF Len(alive) = 0 THEN 0 ELSE cfg.discussion_rounds) |->
            Message(alive[1], c[i], rnd, "DAY_DISCUSSION", TRUE, <<>>)]

\* _run_discussion_round, repeated discussion_rounds times by run: the messages
\* of the phase, every alive player speaking once per round in turn order;
\* c[i] is what the model of the i-th speaker generates
discussion_messages(st, rnd, cfg, c) ==
    LET alive == alive_players(st)
        n == Len(alive)
    IN  [i \in 1..(cfg.discussion_rounds * n) |->
            Message(alive[((i - 1) % n) + 1], c[i], rnd, "DAY_DISCUSSION", TRUE, <<>>)]

\* the event log after the first k turns of the phase: with enable_reactions
\* the reactions to a message follow it
RECURSIVE discussion_events(_, _, _, _, _, _)
discussion_events(st, rnd, cfg, re, evs, k) ==
    LET alive == alive_players(st)
    IN  IF k = 0 \/ ~cfg.enable_reactions THEN evs
        ELSE collect_reactions(alive, 1, alive[((k - 1) % Len(alive)) + 1], re,
                               discussion_events(st, rnd, cfg, re, evs, k - 1),
                               rnd, "DAY_DISCUSSION")

\* the update_memory calls of the phase: _update_agent_memories before every
\* turn, and the one that ends run_phase
discussion_updates(c, re) ==
    LET said == discussion_messages(status, current_round, config, c)
    IN  [i \in 1..(Len(said) + 1) |->
            [agents |-> DOMAIN memory,
             events |-> discussion_events(status, current_round, config, re,
                                          events, i - 1),
             messages |-> messages \o SubSeq(said, 1, i - 1)]]

\* run_phase while current_phase = DAY_DISCUSSION: c[i] is what the i-th
\* speaker says, re[p] how the agent of p reacts to a message.  (Without
\* reactions the phase appends no event, and the updates made before the turns
\* ingest a prefix of what the last one ingests, in the same order.)
DayDiscussion_run_phase(c, re) ==
    /\ current_phase = "DAY_DISCUSSION"
    /\ Len(c) = discussion_turns(status, config)
    /\ messages' = messages \o discussion_messages(status, current_round, config, c)
    /\ events' = discussion_events(status, current_round, config, re, events,
                                   Len(c))
    /\ UNCHANGED <<role, status, protected, current_round, current_phase,
                   votes, actions, game_over, winning_team, ret, ballots>>
    /\ UNCHANGED <<known_roles, night_setup, error, result>>
    /\ Emitted
    /\ IF config.enable_reactions
       THEN RememberedEach(discussion_updates(c, re))
       ELSE Remembered(events', messages')

\* run_game's call of run_phase while current_phase = DAY_DISCUSSION
DayDiscussion(c, re) ==
    /\ pc = "run_phase"
    /\ DayDiscussion_run_phase(c, re)
    /\ pc' = "check_game_over"
    /\ UNCHANGED executions

----------------------------------------------------------------------------
(* Day voting (DayVotingController)                                        *)

\* the ballot loop with the self-vote test forgotten
RECURSIVE cast_ballots_self_vote(_, _, _, _, _, _, _)
cast_ballots_self_vote(alive, i, b, st, rnd, ph, acc) ==
    IF i > Len(alive) THEN acc
    ELSE LET player == alive[i]
             target_id == b[player]
         IN  IF target_id = EmptyTarget
             THEN cast_ballots_self_vote(alive, i + 1, b, st, rnd, ph, acc)
             ELSE IF target_id \notin Players \/ ~is_alive(st, target_id)
             THEN cast_ballots_self_vote(alive, i + 1, b, st, rnd, ph, acc)
             ELSE cast_ballots_self_vote(alive, i + 1, b, st, rnd, ph,
                    [votes |-> Append(acc.votes, Vote(player, target_id, rnd)),
                     events |-> add_game_event(acc.events, "vote", "", TRUE,
                                               <<player, target_id>>, rnd, ph),
                     tally |-> [acc.tally EXCEPT ![target_id] = @ + 1]])

\* the loop over alive_players of _run_voting_round: acc carries the vote log,
\* the event log and the local dict votes (a count per target, 0 = no key)
RECURSIVE cast_ballots(_, _, _, _, _, _, _)
cast_ballots(alive, i, b, st, rnd, ph, acc) ==
    IF i > Len(alive) THEN acc
    ELSE LET player == alive[i]
             target_id == b[player]
         IN  IF target_id = EmptyTarget
             THEN cast_ballots(alive, i + 1, b, st, rnd, ph, acc)
             ELSE IF (target_id \notin Players \/ ~is_alive(st, target_id))
                     \/ target_id = player
             THEN cast_ballots(alive, i + 1, b, st, rnd, ph, acc)
             ELSE cast_ballots(alive, i + 1, b, st, rnd, ph,
                    [votes |-> Append(acc.votes, Vote(player, target_id, rnd)),
                     events |-> add_game_event(acc.events, "vote", "", TRUE,
                                               <<player, target_id>>, rnd, ph),
                     tally |-> [acc.tally EXCEPT ![target_id] = @ + 1]])

\* max(votes.values())
max_votes(tally) == CHOOSE m \in {tally[p] : p \in Players} :
                        \A p \in Players : tally[p] <= m

\* tied_players: the targets holding the maximum count
tied_players(tally) == {p \in Players : tally[p] > 0 /\ tally[p] = max_votes(tally)}

\* what the description of an elimination event tells of the role of the dead:
\* "They were a <role>" with reveal_role_on_death, nothing without
revealed_role(rl, cfg, dead_id) ==
    IF cfg.reveal_role_on_death THEN rl[dead_id] ELSE ""

\* the resolution without the tie test: max() picks the first target in
\* insertion order among those with the maximum count
resolve_votes_first_max(tally, st, evs, rnd, ph, rl, cfg) ==
    IF \A p \in Players : tally[p] = 0
    THEN [status |-> st, events |-> evs]
    ELSE LET first == CHOOSE i \in 1..Len(PlayerOrder) :
                         /\ PlayerOrder[i] \in tied_players(tally)
                         /\ \A j \in 1..(i - 1) : PlayerOrder[j] \notin tied_players(tally)
             eliminated_id == PlayerOrder[first]
         IN  [status |-> [st EXCEPT ![eliminated_id] = "DEAD"],
              events |-> add_game_event(
                            add_game_event(evs, "vote_result", "eliminated", TRUE,
                                           <<eliminated_id>>, rnd, ph),
                            "elimination", revealed_role(rl, cfg, eliminated_id),
                            TRUE, <<eliminated_id>>, rnd, ph)]

\* the resolution eliminating every tied player
resolve_votes_all_tied(tally, st, evs, rnd, ph, rl, cfg) ==
    IF \A p \in Players : tally[p] = 0
    THEN [status |-> st, events |-> evs]
    ELSE [status |-> [p \in Players |->
                         IF p \in tied_players(tally) THEN "DEAD" ELSE st[p]],
          events |-> add_game_event(evs, "vote_result", "eliminated", TRUE,
                                    SelectSeq(PlayerOrder,
                                              LAMBDA p : p \in tied_players(tally)),
                                    rnd, ph)]

\* the resolution at the end of _run_voting_round (after the ballots are cast)
resolve_votes(tally, st, evs, rnd, ph, rl, cfg) ==
    IF \A p \in Players : tally[p] = 0
    THEN [status |-> st, events |-> evs]
    ELSE IF Cardinality(tied_players(tally)) > 1
    THEN [status |-> st,
          events |-> add_game_event(evs, "vote_result", "tie", TRUE, <<>>, rnd, ph)]
    ELSE LET eliminated_id == CHOOSE p \in Players : p \in tied_players(tally)
         IN  [status |-> [st EXCEPT ![eliminated_id] = "DEAD"],
              events |-> add_game_event(
                            add_game_event(evs, "vote_result", "eliminated", TRUE,
                                           <<eliminated_id>>, rnd, ph),
                            "elimination", revealed_role(rl, cfg, eliminated_id),
                            TRUE, <<eliminated_id>>, rnd, ph)]

\* a death that updates no known_roles, whatever the configuration
reveal_roles_never(kr, rl, cfg, dead) == kr

\* "Update all players' known roles" on a death with reveal_role_on_death:
\* every player (alive or dead) learns the role of every player in dead
reveal_roles(kr, rl, cfg, dead) ==
    IF cfg.reveal_role_on_death
    THEN [q \in Players |->
            [x \in Players |-> IF x \in dead THEN rl[x] ELSE kr[q][x]]]
    ELSE kr

\* the voting round whose tally starts from the Votes of the vote log
run_voting_round_counting_log(b, st, vts, evs, rnd, ph, kr, rl, cfg) ==
    LET cast == cast_ballots(alive_players(st), 1, b, st, rnd, ph,
                             [votes |-> vts, events |-> evs,
                              tally |-> [p \in Players |->
                                  Cardinality({i \in 1..Len(vts) :
                                                  vts[i].target_id = p})]])
        res == resolve_votes(cast.tally, st, cast.events, rnd, ph, rl, cfg)
        eliminated == {p \in Players : st[p] = "ALIVE" /\ res.status[p] = "DEAD"}
    IN  [status |-> res.status, votes |-> cast.votes, events |-> res.events,
         known_roles |-> reveal_roles(kr, rl, cfg, eliminated)]

\* _run_voting_round for the ballots b the agents return; the players it
\* eliminates are revealed as part of the elimination event
run_voting_round(b, st, vts, evs, rnd, ph, kr, rl, cfg) ==
    LET cast == cast_ballots(alive_players(st), 1, b, st, rnd, ph,
                             [votes |-> vts, events |-> evs,
                              tally |-> [p \in Players |-> 0]])
        res == resolve_votes(cast.tally, st, cast.events, rnd, ph, rl, cfg)
        eliminated == {p \in Players : st[p] = "ALIVE" /\ res.status[p] = "DEAD"}
    IN  [status |-> res.status, votes |-> cast.votes, events |-> res.events,
         known_roles |-> reveal_roles(kr, rl, cfg, eliminated)]

\* where a voting round leaves the loop of DayVotingController.run
\* (voting_round_num is its round_num): in its next round or at the end of
\* run_phase
after_voting_round ==
    IF voting_round_num < config.voting_time THEN "next_round" ELSE "end"

\* the event log a voter's agent reads in the update_memory that precedes its
\* ballot: the ballots of the voters before it have been cast
events_before_ballot(pid, b, st, vts, evs, rnd, ph) ==
    LET alive == alive_players(st)
        i == CHOOSE k \in 1..Len(alive) : alive[k] = pid
    IN  cast_ballots(SubSeq(alive, 1, i - 1), 1, b, st, rnd, ph,
                     [votes |-> vts, events |-> evs,
                      tally |-> [p \in Players |-> 0]]).events

\* an agent's memory after a voting round that is not the last: a voter's
\* agent is updated before its ballot, every agent when run begins, no agent
\* after the round
voting_round_memory(pid, b) ==
    IF is_alive(status, pid)
    THEN update_memory(pid, events_before_ballot(pid, b, status, votes, events,
                                                 current_round, current_phase),
                       messages, name, memory[pid], saved_memory[pid],
                       config.memory_limit)
    ELSE IF voting_round_num = 1
    THEN update_memory(pid, events, messages, name, memory[pid],
                       saved_memory[pid], config.memory_limit)
    ELSE [memory |-> memory[pid], saved_memory |-> saved_memory[pid]]

\* run_phase while current_phase = DAY_VOTING: one step per voting round of
\* the loop of DayVotingController.run
DayVoting_run_phase(b) ==
    /\ current_phase = "DAY_VOTING"
    /\ \A p \in Players : (b[p] = NotAsked) <=> ~is_alive(status, p)
    /\ LET r == run_voting_round(b, status, votes, events, current_round,
                                 current_phase, known_roles, role, config)
       IN  /\ status' = r.status
           /\ votes' = r.votes
           /\ events' = r.events
           /\ known_roles' = r.known_roles
    /\ ballots' = b
    /\ voting_round_num' = IF after_voting_round = "next_round"
                           THEN voting_round_num + 1 ELSE 1
    /\ UNCHANGED <<role, protected, current_round, current_phase,
                   actions, messages, game_over, winning_team, ret>>
    /\ UNCHANGED <<name, config, player_names, action_callbacks,
                   action_round_num, replies, error, result>>
    /\ Emitted
    /\ IF after_voting_round = "end" THEN Remembered(events', messages')
       ELSE /\ memory' = [p \in DOMAIN memory |->
                             voting_round_memory(p, b).memory]
            /\ saved_memory' = [p \in DOMAIN memory |->
                             voting_round_memory(p, b).saved_memory]

\* run_game's call of run_phase while current_phase = DAY_VOTING
DayVoting(b) ==
    /\ pc = "run_phase"
    /\ DayVoting_run_phase(b)
    /\ pc' = IF after_voting_round = "next_round" THEN "run_phase"
             ELSE "check_game_over"
    /\ UNCHANGED executions

----------------------------------------------------------------------------
(* Night mafia discussion (NightMafiaDiscussionController)                 *)

\* alive_mafia of run
alive_mafia(rl, st) == SelectSeq(alive_players(st), LAMBDA p : team(rl[p]) = "MAFIA")

\* the number of messages of the phase: one per alive Mafia player and round
mafia_turns(rl, st, cfg) == cfg.mafia_discussion_rounds * Len(alive_mafia(rl, st))

\* the mafia discussion addressed to every player of the Mafia team, dead or alive
mafia_messages_to_team(rl, st, rnd, cfg, c) ==
    LET mafia_players == alive_mafia(rl, st)
        n == Len(mafia_players)
    IN  [i \in 1..(cfg.mafia_discussion_rounds * n) |->
            Message(mafia_players[((i - 1) % n) + 1], c[i], rnd,
                    "NIGHT_MAFIA_DISCUSSION", FALSE,
                    SelectSeq(PlayerOrder, LAMBDA p : team(rl[p]) = "MAFIA"))]

\* _run_mafia_discussion_round, repeated mafia_discussion_rounds times by run;
\* c[i] is what the model of the i-th speaker generates
mafia_messages(rl, st, rnd, cfg, c) ==
    LET mafia_players == alive_mafia(rl, st)
        n == Len(mafia_players)
    IN  [i \in 1..(cfg.mafia_discussion_rounds * n) |->
            Message(mafia_players[((i - 1) % n) + 1], c[i], rnd,
                    "NIGHT_MAFIA_DISCUSSION", FALSE, mafia_players)]

\* the event log after the first k turns of the phase: with
\* enable_mafia_reactions the reactions to a message follow it
RECURSIVE mafia_discussion_events(_, _, _, _, _, _, _)
mafia_discussion_events(rl, st, rnd, cfg, re, evs, k) ==
    LET mafia_players == alive_mafia(rl, st)
    IN  IF k = 0 \/ ~cfg.enable_mafia_reactions THEN evs
        ELSE collect_mafia_reactions(mafia_players, 1,
                 mafia_players[((k - 1) % Len(mafia_players)) + 1], re,
                 mafia_discussion_events(rl, st, rnd, cfg, re, evs, k - 1),
                 rnd, "NIGHT_MAFIA_DISCUSSION")

\* the update_memory calls of the phase: _update_agent_memories when run
\* begins, the speaker's agent before its turn, and the update that ends
\* run_phase
mafia_discussion_updates(c, re) ==
    LET mafia_players == alive_mafia(role, status)
        said == IF Len(mafia_players) = 0 THEN <<>>
                ELSE mafia_messages(role, status, current_round, config, c)
        logs(k) == [events |-> mafia_discussion_events(role, status, current_round,
                                                       config, re, events, k),
                    messages |-> messages \o SubSeq(said, 1, k)]
    IN  <<[agents |-> DOMAIN memory, events |-> events, messages |-> messages]>>
        \o [i \in 1..Len(said) |->
               [agents |-> {mafia_players[((i - 1) % Len(mafia_players)) + 1]},
                events |-> logs(i - 1).events,
                messages |-> logs(i - 1).messages]]
        \o <<[agents |-> DOMAIN memory, events |-> logs(Len(said)).events,
              messages |-> logs(Len(said)).messages]>>

\* run_phase while current_phase = NIGHT_MAFIA_DISCUSSION: c[i] is what the
\* i-th speaker says, re[p] how the agent of p reacts to a message
NightMafiaDiscussion_run_phase(c, re) ==
    /\ current_phase = "NIGHT_MAFIA_DISCUSSION"
    /\ Len(c) = mafia_turns(role, status, config)
    /\ messages' = IF Len(alive_mafia(role, status)) = 0 THEN messages
                   ELSE messages \o mafia_messages(role, status, current_round,
                                                   config, c)
    /\ events' = mafia_discussion_events(role, status, current_round, config,
                                         re, events, Len(c))
    /\ UNCHANGED <<role, status, protected, current_round, current_phase,
                   votes, actions, game_over, winning_team, ret, ballots>>
    /\ UNCHANGED <<known_roles, night_setup, error, result>>
    /\ Emitted
    /\ IF config.enable_mafia_reactions
       THEN RememberedEach(mafia_discussion_updates(c, re))
       ELSE Remembered(events', messages')

\* run_game's call of run_phase while current_phase = NIGHT_MAFIA_DISCUSSION
NightMafiaDiscussion(c, re) ==
    /\ pc = "run_phase"
    /\ NightMafiaDiscussion_run_phase(c, re)
    /\ pc' = "check_game_over"
    /\ UNCHANGED executions

----------------------------------------------------------------------------
(* Night action (NightActionController)                                    *)

\* what the reply to the night prompt may name: a player id, an id of no
\* player, or nothing; a Villager's agent returns before it prompts
NoAction == "no_action"

NightAnswers(r) ==
    IF r = "VILLAGER" THEN {NoAction} ELSE Players \cup {UnknownId, NoAction}

\* BaseAgent.generate_night_action: the action type of a role
action_type(r) ==
    IF r \in {"MAFIA", "GODFATHER"} THEN "kill"
    ELSE IF r = "DOCTOR" THEN "protect"
    ELSE "investigate"

\* the value of a missing key of the dict actions (actions.get(role) is None),
\* and of the None an agent returns
NoneAction == Action(None, None, None, 0)

\* generate_night_action taking the named id as it is, without the search
\* among the alive players other than the actor
generate_night_action_unchecked(player, answer, rl, st, rnd) ==
    IF rl[player] = "VILLAGER" \/ answer = NoAction THEN NoneAction
    ELSE Action(player, action_type(rl[player]), answer, rnd)

\* generate_night_action without the early return for a Villager
generate_night_action_villager_acts(player, answer, rl, st, rnd) ==
    IF answer \in Players /\ is_alive(st, answer) /\ answer # player
    THEN Action(player, action_type(rl[player]), answer, rnd)
    ELSE NoneAction

\* BaseAgent.generate_night_action (RandomAgent's returns a subset): None for a
\* Villager; the target is the alive player other than the actor that the
\* reply names; None when there is none
generate_night_action(player, answer, rl, st, rnd) ==
    IF rl[player] = "VILLAGER" THEN NoneAction
    ELSE IF answer \in Players /\ is_alive(st, answer) /\ answer # player
    THEN Action(player, action_type(rl[player]), answer, rnd)
    ELSE NoneAction

\* the loop of _run_action_round keeping the first action of a role
RECURSIVE collect_actions_first_kept(_, _, _, _, _, _, _)
collect_actions_first_kept(alive, i, a, rl, st, rnd, acc) ==
    IF i > Len(alive) \/ acc.raised THEN acc
    ELSE LET player == alive[i]
             action == generate_night_action(player, a[player], rl, st, rnd)
         IN  IF action = NoneAction
             THEN collect_actions_first_kept(alive, i + 1, a, rl, st, rnd, acc)
             ELSE collect_actions_first_kept(alive, i + 1, a, rl, st, rnd,
                     [dict |-> IF acc.dict[rl[player]] = NoneAction
                               THEN [acc.dict EXCEPT ![rl[player]] = action]
                               ELSE acc.dict,
                      actions |-> Append(acc.actions, action),
                      raised |-> action.target_id \notin Players])

\* the loop of _run_action_round over alive_players: acc carries the local dict
\* actions (role -> Action, NoneAction = no key), the action log, and whether
\* the lookup players[action.target_id] raised KeyError (which ends the loop)
RECURSIVE collect_actions(_, _, _, _, _, _, _)
collect_actions(alive, i, a, rl, st, rnd, acc) ==
    IF i > Len(alive) \/ acc.raised THEN acc
    ELSE LET player == alive[i]
             action == generate_night_action(player, a[player], rl, st, rnd)
         IN  IF action = NoneAction
             THEN collect_actions(alive, i + 1, a, rl, st, rnd, acc)
             ELSE collect_actions(alive, i + 1, a, rl, st, rnd,
                     [dict |-> [acc.dict EXCEPT ![rl[player]] = action],
                      actions |-> Append(acc.actions, action),
                      raised |-> action.target_id \notin Players])

\* kill_action with the plain Mafia action preferred
kill_action_mafia_first(dict) ==
    IF dict["MAFIA"] # NoneAction THEN dict["MAFIA"] ELSE dict["GODFATHER"]

\* kill_action of _process_night_actions: the Godfather's, otherwise the Mafia's
kill_action(dict) ==
    IF dict["GODFATHER"] # NoneAction THEN dict["GODFATHER"] ELSE dict["MAFIA"]

\* the Godfather never disguised
appears_innocent_never(rl, cfg, target) == FALSE

\* appears_innocent of the detective step
appears_innocent(rl, cfg, target) ==
    rl[target] = "GODFATHER" /\ cfg.godfather_appears_innocent

\* the result without the Godfather's disguise
investigation_result_undisguised(rl, cfg, target) ==
    IF team(rl[target]) = "VILLAGE" THEN "innocent" ELSE "Mafia"

\* the result reported by an investigation of target
investigation_result(rl, cfg, target) ==
    IF team(rl[target]) = "VILLAGE" \/ appears_innocent(rl, cfg, target)
    THEN "innocent" ELSE "Mafia"

\* targets of the private kill events: every player of the Mafia team
mafia_team(rl) == SelectSeq(PlayerOrder, LAMBDA p : team(rl[p]) = "MAFIA")

\* The steps of _process_night_actions work on s, the part of the game they
\* change: status, events, known_roles, protected and the 'action' callbacks.

\* the detective step that records what the target appears to be: a Villager
\* for a disguised Godfather
process_investigate_records_appearance(dict, rl, cfg, s, rnd, ph) ==
    IF dict["DETECTIVE"] = NoneAction THEN s
    ELSE LET investigate_action == dict["DETECTIVE"]
             detective == investigate_action.actor_id
             target == investigate_action.target_id
         IN  [s EXCEPT
                !.action_callbacks = Append(@, investigate_action),
                !.known_roles = [@ EXCEPT ![detective][target] =
                                    IF appears_innocent(rl, cfg, target)
                                    THEN "VILLAGER" ELSE rl[target]],
                !.events = add_game_event_about(@, "investigation",
                               investigation_result(rl, cfg, target), target,
                               FALSE, <<detective>>, rnd, ph)]

\* _process_night_actions, detective step
process_investigate(dict, rl, cfg, s, rnd, ph) ==
    IF dict["DETECTIVE"] = NoneAction THEN s
    ELSE LET investigate_action == dict["DETECTIVE"]
             detective == investigate_action.actor_id
             target == investigate_action.target_id
         IN  [s EXCEPT
                !.action_callbacks = Append(@, investigate_action),
                !.known_roles = IF ~appears_innocent(rl, cfg, target)
                                THEN [@ EXCEPT ![detective][target] = rl[target]]
                                ELSE @,
                !.events = add_game_event_about(@, "investigation",
                               investigation_result(rl, cfg, target), target,
                               FALSE, <<detective>>, rnd, ph)]

\* _process_night_actions, doctor step
process_protect(dict, s, rnd, ph) ==
    IF dict["DOCTOR"] = NoneAction THEN s
    ELSE LET protect_action == dict["DOCTOR"]
         IN  [s EXCEPT
                !.action_callbacks = Append(@, protect_action),
                !.protected = [@ EXCEPT ![protect_action.target_id] = TRUE],
                !.events = add_game_event_about(@, "protection", "",
                               protect_action.target_id, FALSE,
                               <<protect_action.actor_id>>, rnd, ph)]

\* protected_player_id of the doctor step: the doctor's target
protected_player_id(dict) ==
    IF dict["DOCTOR"] = NoneAction THEN None ELSE dict["DOCTOR"].target_id

\* the public night_elimination event and the reveal that goes with it
night_elimination(rl, cfg, s, target_id, rnd, ph) ==
    [s EXCEPT
       !.events = add_game_event_about(@, "night_elimination",
                      revealed_role(rl, cfg, target_id),
                      target_id, TRUE, <<target_id>>, rnd, ph),
       !.known_roles = reveal_roles(@, rl, cfg, {target_id})]

\* the public peaceful-night event
night_result(s, rnd, ph) ==
    [s EXCEPT !.events = add_game_event(@, "night_result", "peaceful", TRUE,
                                        <<>>, rnd, ph)]

\* the kill step without the protection test
process_kill_unprotected(dict, rl, cfg, s, rnd, ph) ==
    LET kill == kill_action(dict)
    IN  IF kill = NoneAction THEN night_result(s, rnd, ph)
        ELSE night_elimination(rl, cfg,
                [s EXCEPT
                   !.action_callbacks = Append(@, kill),
                   !.status = [@ EXCEPT ![kill.target_id] = "DEAD"],
                   !.events = add_game_event_about(@, "kill_success", "",
                                  kill.target_id, FALSE, mafia_team(rl), rnd, ph)],
                kill.target_id, rnd, ph)

\* the kill step whose successful kill is not announced in public
process_kill_unannounced(dict, rl, cfg, s, rnd, ph) ==
    LET kill == kill_action(dict)
    IN  IF kill = NoneAction THEN night_result(s, rnd, ph)
        ELSE IF kill.target_id = protected_player_id(dict)
        THEN night_result(
                [s EXCEPT
                   !.action_callbacks = Append(@, kill),
                   !.events = add_game_event_about(@, "kill_failed", "",
                                  kill.target_id, FALSE, mafia_team(rl), rnd, ph)],
                rnd, ph)
        ELSE [s EXCEPT
                !.action_callbacks = Append(@, kill),
                !.status = [@ EXCEPT ![kill.target_id] = "DEAD"],
                !.events = add_game_event_about(@, "kill_success", "",
                               kill.target_id, FALSE, mafia_team(rl), rnd, ph)]

\* the kill step that leaves its target the only dead player
process_kill_others_revived(dict, rl, cfg, s, rnd, ph) ==
    LET kill == kill_action(dict)
    IN  IF kill = NoneAction THEN night_result(s, rnd, ph)
        ELSE IF kill.target_id = protected_player_id(dict)
        THEN night_result(
                [s EXCEPT
                   !.action_callbacks = Append(@, kill),
                   !.events = add_game_event_about(@, "kill_failed", "",
                                  kill.target_id, FALSE, mafia_team(rl), rnd, ph)],
                rnd, ph)
        ELSE night_elimination(rl, cfg,
                [s EXCEPT
                   !.action_callbacks = Append(@, kill),
                   !.status = [p \in Players |->
                                 IF p = kill.target_id THEN "DEAD" ELSE "ALIVE"],
                   !.events = add_game_event_about(@, "kill_success", "",
                                  kill.target_id, FALSE, mafia_team(rl), rnd, ph)],
                kill.target_id, rnd, ph)

\* _process_night_actions, kill step
process_kill(dict, rl, cfg, s, rnd, ph) ==
    LET kill == kill_action(dict)
    IN  IF kill = NoneAction THEN night_result(s, rnd, ph)
        ELSE IF kill.target_id = protected_player_id(dict)
        THEN night_result(
                [s EXCEPT
                   !.action_callbacks = Append(@, kill),
                   !.events = add_game_event_about(@, "kill_failed", "",
                                  kill.target_id, FALSE, mafia_team(rl), rnd, ph)],
                rnd, ph)
        ELSE night_elimination(rl, cfg,
                [s EXCEPT
                   !.action_callbacks = Append(@, kill),
                   !.status = [@ EXCEPT ![kill.target_id] = "DEAD"],
                   !.events = add_game_event_about(@, "kill_success", "",
                                  kill.target_id, FALSE, mafia_team(rl), rnd, ph)],
                kill.target_id, rnd, ph)

\* the final loop of _process_night_actions left out
reset_protection_skipped(s) == s

\* "Reset protection status for all players"
reset_protection(s) == [s EXCEPT !.protected = [p \in Players |-> FALSE]]

\* the three steps with the kill resolved first
process_night_actions_kill_first(dict, rl, cfg, s, rnd, ph) ==
    reset_protection(
        process_protect(dict,
            process_investigate(dict, rl, cfg,
                process_kill(dict, rl, cfg, s, rnd, ph), rnd, ph),
            rnd, ph))

\* _process_night_actions: investigate, then protect, then kill, then the reset
process_night_actions(dict, rl, cfg, s, rnd, ph) ==
    reset_protection(
        process_kill(dict, rl, cfg,
            process_protect(dict,
                process_investigate(dict, rl, cfg, s, rnd, ph), rnd, ph),
            rnd, ph))

\* _run_action_round: a is what the reply of each alive player's agent names
run_action_round(a, rl, cfg, s, acts, rnd, ph) ==
    LET got == collect_actions(alive_players(s.status), 1, a, rl, s.status, rnd,
                               [dict |-> [r \in PlayerRole |-> NoneAction],
                                actions |-> acts, raised |-> FALSE])
    IN  [actions |-> got.actions, raised |-> got.raised,
         s |-> IF got.raised THEN s
               ELSE process_night_actions(got.dict, rl, cfg, s, rnd, ph)]

\* run_phase while current_phase = NIGHT_ACTION: one step per action round of
\* the loop of NightActionController.run (action_round_num is its round_num)
\* where the action round leaves the loop of NightActionController.run: in the
\* exception it raised, in its next round, or at the end of run_phase
after_action_round(a) ==
    IF run_action_round(a, role, config,
                        [status |-> status, events |-> events,
                         known_roles |-> known_roles, protected |-> protected,
                         action_callbacks |-> action_callbacks],
                        actions, current_round, current_phase).raised
    THEN "raised"
    ELSE IF action_round_num < config.action_time THEN "next_round"
    ELSE "end"

NightAction_run_phase(a) ==
    /\ current_phase = "NIGHT_ACTION"
    /\ \A p \in Players : ~is_alive(status, p) => a[p] = NoAction
    /\ LET r == run_action_round(a, role, config,
                    [status |-> status, events |-> events,
                     known_roles |-> known_roles, protected |-> protected,
                     action_callbacks |-> action_callbacks],
                    actions, current_round, current_phase)
       IN  /\ actions' = r.actions
           /\ status' = r.s.status
           /\ events' = r.s.events
           /\ known_roles' = r.s.known_roles
           /\ protected' = r.s.protected
           /\ action_callbacks' = r.s.action_callbacks
    /\ action_round_num' =
          CASE after_action_round(a) = "raised" -> action_round_num
            [] after_action_round(a) = "next_round" -> action_round_num + 1
            [] after_action_round(a) = "end" -> 1
    /\ UNCHANGED <<role, current_round, current_phase, votes, messages,
                   game_over, winning_team, ret, ballots>>
    /\ replies' = a
    /\ UNCHANGED <<name, config, player_names, voting_round_num, error, result>>
    /\ Emitted
    /\ IF after_action_round(a) = "end" THEN Remembered(events', messages')
       ELSE IF action_round_num = 1
       THEN Remembered(events, messages)
       ELSE UNCHANGED agent_memory

\* run_game's call of run_phase while current_phase = NIGHT_ACTION
NightAction(a) ==
    /\ pc = "run_phase"
    /\ NightAction_run_phase(a)
    /\ pc' = CASE after_action_round(a) = "raised" -> "raised"
               [] after_action_round(a) = "next_round" -> "run_phase"
               [] after_action_round(a) = "end" -> "check_game_over"
    /\ UNCHANGED executions

----------------------------------------------------------------------------
(* Orchestrator (GameController)                                           *)

\* GameState has no attribute reverse_players_order: the call in advance_phase
\* raises AttributeError
has_reverse_players_order == FALSE

\* no exception was raised; an exception raised to the caller: its type and,
\* for the ValueError of initialize_game, the two counts its message names
NoError == [type |-> None, expected |-> None, got |-> None]

AttributeError == [type |-> "AttributeError", expected |-> None, got |-> None]

ValueError(expected, got) == [type |-> "ValueError", expected |-> expected, got |-> got]

\* next_phase without the round-1 exception
next_phase_plain(ph, rnd) ==
    LET current_index == CHOOSE i \in 1..Len(phase_order) : phase_order[i] = ph
    IN  phase_order[(current_index % Len(phase_order)) + 1]

\* next_phase of advance_phase, with the round-1 exception
next_phase(ph, rnd) ==
    LET current_index == CHOOSE i \in 1..Len(phase_order) : phase_order[i] = ph
        nxt == phase_order[(current_index % Len(phase_order)) + 1]
    IN  IF rnd = 1 /\ nxt = "DAY_VOTING" THEN "NIGHT_MAFIA_DISCUSSION"
        ELSE IF rnd = 1 /\ nxt = "NIGHT_ACTION" THEN "DAY_DISCUSSION"
        ELSE nxt

\* check_game_over whose true result does not end the loop of run_game
CheckGameOver_no_break ==
    /\ pc = "check_game_over"
    /\ LET r == GameState_check_game_over(role, status, game_over, winning_team)
       IN  /\ ret' = r.ret
           /\ game_over' = r.game_over
           /\ winning_team' = r.winning_team
           /\ events' = IF r.ret
                        THEN add_game_event(events, "game_over", r.winning_team, TRUE,
                                            <<>>, current_round, current_phase)
                        ELSE events
           /\ pc' = "advance_phase"
    /\ UNCHANGED <<role, status, protected, current_round, current_phase,
                   votes, actions, messages, ballots>>
    /\ UNCHANGED <<known_roles, night_setup, agent_memory, call_outcome>>
    /\ Emitted

\* GameController.check_game_over, called by run_game after run_phase
CheckGameOver ==
    /\ pc = "check_game_over"
    /\ LET r == GameState_check_game_over(role, status, game_over, winning_team)
       IN  /\ ret' = r.ret
           /\ game_over' = r.game_over
           /\ winning_team' = r.winning_team
           /\ events' = IF r.ret
                        THEN add_game_event(events, "game_over", r.winning_team, TRUE,
                                            <<>>, current_round, current_phase)
                        ELSE events
           /\ pc' = IF r.ret THEN "returned" ELSE "advance_phase"
    /\ UNCHANGED <<role, status, protected, current_round, current_phase,
                   votes, actions, messages, ballots>>
    /\ UNCHANGED <<known_roles, night_setup, agent_memory, call_outcome>>
    /\ Emitted

\* advance_phase raises: the phase to enter is DAY_DISCUSSION and the method
\* it calls first does not exist
advance_phase_raises ==
    /\ next_phase(current_phase, current_round) = "DAY_DISCUSSION"
    /\ ~has_reverse_players_order

\* GameController.advance_phase
advance_phase ==
    /\ LET nxt == next_phase(current_phase, current_round)
       IN  IF advance_phase_raises
           THEN /\ error' = AttributeError
                /\ UNCHANGED <<current_round, current_phase, events>>
           ELSE LET rnd == IF nxt = "DAY_DISCUSSION" THEN current_round + 1
                           ELSE current_round
                    evs == IF nxt = "DAY_DISCUSSION"
                           THEN add_game_event(events, "new_round", "", TRUE, <<>>,
                                               rnd, current_phase)
                           ELSE events
                IN  /\ current_round' = rnd
                    /\ current_phase' = nxt
                    /\ events' = add_game_event(evs, "phase_change", nxt, TRUE, <<>>,
                                                rnd, nxt)
                    /\ UNCHANGED error
    /\ UNCHANGED <<role, status, protected, votes, actions, messages,
                   game_over, winning_team, ret, ballots>>
    /\ UNCHANGED <<known_roles, night_setup, agent_memory, result>>
    /\ Emitted

\* advance_phase called by run_game when the game is not over
AdvancePhase ==
    /\ pc = "advance_phase"
    /\ advance_phase
    /\ pc' = IF advance_phase_raises THEN "raised" ELSE "run_phase"
    /\ UNCHANGED executions

----------------------------------------------------------------------------
(* Initial states and the game specification                               *)

\* the keys of the role distribution in the order of the default dict
role_names == <<"VILLAGER", "MAFIA", "DOCTOR", "DETECTIVE", "GODFATHER">>

\* sum(role_distribution.values())
RECURSIVE sum_counts(_, _)
sum_counts(dist, i) ==
    IF i > Len(role_names) THEN 0 ELSE dist[role_names[i]] + sum_counts(dist, i + 1)

total_roles(dist) == sum_counts(dist, 1)

\* the role list with one token per configured role, whatever its count
RECURSIVE role_tokens_one_each(_, _)
role_tokens_one_each(dist, i) ==
    IF i > Len(role_names) THEN <<>>
    ELSE (IF dist[role_names[i]] > 0 THEN <<role_names[i]>> ELSE <<>>)
         \o role_tokens_one_each(dist, i + 1)

\* roles.extend([role] * count) over the items of the role distribution
RECURSIVE role_tokens(_, _)
role_tokens(dist, i) ==
    IF i > Len(role_names) THEN <<>>
    ELSE [k \in 1..dist[role_names[i]] |-> role_names[i]] \o role_tokens(dist, i + 1)

\* random.shuffle(roles): the orders the shuffle may leave the list in
shuffles(roles) ==
    {[i \in 1..Len(roles) |-> roles[pi[i]]] : pi \in Permutations(1..Len(roles))}

\* the role distribution a role list has
role_counts(roles) ==
    [r \in PlayerRole |-> Cardinality({i \in 1..Len(roles) : roles[i] = r})]

\* known_roles as the player-creation loop seeds it: the player itself, and for
\* a Mafia-aligned player the Mafia-aligned players created before it (the
\* dict players holds only those when the player is created); None = no key
seed_known_roles(ids, roles, idx) ==
    [p \in ids |-> [q \in ids |->
        IF q = p THEN roles[idx[p]]
        ELSE IF team(roles[idx[p]]) = "MAFIA" /\ idx[q] < idx[p]
                /\ team(roles[idx[q]]) = "MAFIA"
        THEN roles[idx[q]]
        ELSE None]]

\* the players initialize_game creates from zip(player_names, roles)
create_players(names, roles) ==
    LET n == IF Len(names) < Len(roles) THEN Len(names) ELSE Len(roles)
        ids == {player_id(i) : i \in 1..n}
        idx == [p \in ids |-> CHOOSE i \in 1..n : player_id(i) = p]
    IN  [role |-> [p \in ids |-> roles[idx[p]]],
         name |-> [p \in ids |-> names[idx[p]]],
         status |-> [p \in ids |-> "ALIVE"],
         protected |-> [p \in ids |-> FALSE],
         known_roles |-> seed_known_roles(ids, roles, idx)]

\* the configuration with the default mechanics for a role distribution
default_config(dist) ==
    [roles |-> dist,
     godfather_appears_innocent |-> godfather_appears_innocent,
     reveal_role_on_death |-> reveal_role_on_death,
     action_time |-> action_time,
     discussion_rounds |-> discussion_rounds,
     mafia_discussion_rounds |-> mafia_discussion_rounds,
     voting_time |-> voting_time,
     enable_reactions |-> enable_reactions,
     enable_mafia_reactions |-> enable_mafia_reactions,
     memory_limit |-> memory_limit]

\* GameController.initialize_game: the shuffle deals the roles, one game_start event
InitGame ==
    /\ \E d \in Deals :
          LET g == create_players(DefaultNames, d)
          IN  /\ role = g.role
              /\ name = g.name
              /\ status = g.status
              /\ protected = g.protected
              /\ known_roles = g.known_roles
              /\ config = default_config(role_counts(d))
    /\ player_names = DefaultNames
    /\ current_round = 1
    /\ current_phase = "DAY_DISCUSSION"
    /\ events = <<GameEvent("game_start", "", TRUE, <<>>, 1, "DAY_DISCUSSION")>>
    /\ votes = <<>> /\ actions = <<>> /\ messages = <<>>
    /\ game_over = FALSE
    /\ winning_team = None
    /\ pc = "run_phase"
    /\ ret = FALSE
    /\ ballots = [p \in Players |-> NotAsked]
    /\ action_callbacks = <<>>
    /\ action_round_num = 1
    /\ voting_round_num = 1
    /\ replies = [p \in Players |-> NotAsked]
    /\ callbacks = ui_callbacks
    /\ received = nothing_received(ui_callbacks)
    /\ memory = [p \in Players |-> <<>>]
    /\ saved_memory = [p \in Players |-> <<>>]
    /\ error = NoError
    /\ result = None
    /\ executions = <<>>

\* the fields of Players built directly (Player's defaults: ALIVE, not
\* protected, known_roles empty)
constructed_players(d) ==
    /\ role = RoleMap(d)
    /\ name = [p \in Players |-> DefaultNames[CHOOSE i \in 1..Len(PlayerOrder) :
                                                PlayerOrder[i] = p]]
    /\ status = [p \in Players |-> "ALIVE"]
    /\ protected = [p \in Players |-> FALSE]
    /\ known_roles = [p \in Players |-> [q \in Players |-> None]]
    /\ player_names = DefaultNames

\* a GameState built directly in some round and phase and handed to a controller
InitConstructed ==
    /\ \E d \in Deals : constructed_players(d) /\ config = default_config(role_counts(d))
    /\ current_round \in 1..MaxStartRound
    /\ current_phase \in GamePhase
    /\ events = <<>>
    /\ votes = <<>> /\ actions = <<>> /\ messages = <<>>
    /\ game_over = FALSE
    /\ winning_team = None
    /\ pc = "run_phase"
    /\ ret = FALSE
    /\ ballots = [p \in Players |-> NotAsked]
    /\ action_callbacks = <<>>
    /\ action_round_num = 1
    /\ voting_round_num = 1
    /\ replies = [p \in Players |-> NotAsked]
    /\ callbacks = ui_callbacks
    /\ received = nothing_received(ui_callbacks)
    /\ memory = [p \in Players |-> <<>>]
    /\ saved_memory = [p \in Players |-> <<>>]
    /\ error = NoError
    /\ result = None
    /\ executions = <<>>

Init == InitGame \/ InitConstructed

\* what the models say in a phase of k turns, each saying SaidInGame
said_in_game(k) == [i \in 1..k |-> SaidInGame]

\* how the agents react to a message in a game (react_to_message is called
\* only when the configuration enables reactions)
reacted_in_game == [p \in Players |-> "neutral"]

Next ==
    \/ DayDiscussion(said_in_game(discussion_turns(status, config)), reacted_in_game)
    \/ \E b \in [Players -> BallotAnswers \cup {NotAsked}] : DayVoting(b)
    \/ NightMafiaDiscussion(said_in_game(mafia_turns(role, status, config)),
                           reacted_in_game)
    \/ \E a \in [Players -> Players \cup {UnknownId, NoAction}] :
           (\A p \in Players : a[p] \in NightAnswers(role[p])) /\ NightAction(a)
    \/ CheckGameOver
    \/ AdvancePhase

Spec == Init /\ [][Next]_vars

----------------------------------------------------------------------------
(* The night-action phase on a GameState built directly in NIGHT_ACTION,   *)
(* under every setting of the mechanics                                    *)

\* the role assignments explored in the night phase
NightDeals ==
    { <<"DETECTIVE", "DOCTOR", "MAFIA">>,
      <<"MAFIA", "DOCTOR", "DETECTIVE">>,
      <<"DETECTIVE", "GODFATHER", "VILLAGER">>,
      <<"DETECTIVE", "MAFIA", "GODFATHER">>,
      <<"GODFATHER", "MAFIA", "VILLAGER">>,
      <<"MAFIA", "GODFATHER", "VILLAGER">>,
      <<"GODFATHER", "MAFIA", "DOCTOR">>,
      <<"MAFIA", "MAFIA", "VILLAGER">>,
      <<"MAFIA", "VILLAGER", "MAFIA">>,
      <<"VILLAGER", "DOCTOR", "MAFIA">>,
      <<"DOCTOR", "DOCTOR", "MAFIA">>,
      <<"VILLAGER", "DETECTIVE", "DOCTOR">> }

\* the configurations explored: every setting of the two mechanics with one
\* action round, and the default mechanics with up to MaxActionTime rounds
night_configs(dist) ==
    {[default_config(dist) EXCEPT !.godfather_appears_innocent = g,
                                  !.reveal_role_on_death = r] : g, r \in BOOLEAN}
    \cup {[default_config(dist) EXCEPT !.action_time = t] : t \in 1..MaxActionTime}

\* a GameState in NIGHT_ACTION whose players were created as initialize_game
\* creates them; at most one of them died (and was revealed) before this night
InitNight ==
    /\ \E d \in NightDeals, dead \in {S \in SUBSET Players : Cardinality(S) <= 1} :
       \E cfg \in night_configs(role_counts(d)) :
          LET g == create_players(DefaultNames, d)
          IN  /\ cfg.action_time > 1 => dead = {}
              /\ role = g.role
              /\ name = g.name
              /\ status = [p \in Players |-> IF p \in dead THEN "DEAD" ELSE "ALIVE"]
              /\ protected = g.protected
              /\ known_roles = reveal_roles(g.known_roles, g.role, cfg, dead)
              /\ config = cfg
    /\ player_names = DefaultNames
    /\ current_round \in 2..MaxStartRound
    /\ current_phase = "NIGHT_ACTION"
    /\ events = <<>>
    /\ votes = <<>> /\ actions = <<>> /\ messages = <<>>
    /\ game_over = FALSE
    /\ winning_team = None
    /\ pc = "run_phase"
    /\ ret = FALSE
    /\ ballots = [p \in Players |-> NotAsked]
    /\ action_callbacks = <<>>
    /\ action_round_num = 1
    /\ voting_round_num = 1
    /\ replies = [p \in Players |-> NotAsked]
    /\ callbacks = ui_callbacks
    /\ received = nothing_received(ui_callbacks)
    /\ memory = [p \in Players |-> <<>>]
    /\ saved_memory = [p \in Players |-> <<>>]
    /\ error = NoError
    /\ result = None
    /\ executions = <<>>

\* an action round for every reply, a Villager's included (its agent returns
\* before the reply is looked at); in a night of several action rounds the
\* replies explored name nothing or an alive player other than the actor
NextNight ==
    \E a \in [Players -> Players \cup {UnknownId, NoAction}] :
        /\ config.action_time > 1 =>
              \A p \in Players :
                  a[p] = NoAction \/ (a[p] \in Players \ {p} /\ is_alive(status, a[p]))
        /\ NightAction(a)

SpecNight == InitNight /\ [][NextNight]_vars

----------------------------------------------------------------------------
(* GameController.initialize_game on every role distribution and name list *)

\* the role distributions explored: counts up to MaxRoleCount
Distributions ==
    {dist \in [PlayerRole -> 0..MaxRoleCount] : total_roles(dist) <= MaxNames + 1}

\* the lists of names explored
NameLists == UNION {[1..n -> Names] : n \in 0..MaxNames}

\* a GameController constructed with a configuration: game_state is None
InitController ==
    /\ \E dist \in Distributions : config = default_config(dist)
    /\ player_names \in NameLists
    /\ role = <<>> /\ name = <<>> /\ status = <<>> /\ protected = <<>>
    /\ known_roles = <<>>
    /\ current_round = 0
    /\ current_phase = None
    /\ events = <<>>
    /\ votes = <<>> /\ actions = <<>> /\ messages = <<>>
    /\ game_over = FALSE
    /\ winning_team = None
    /\ pc = "initialize_game"
    /\ ret = FALSE
    /\ ballots = <<>>
    /\ action_callbacks = <<>>
    /\ action_round_num = 1
    /\ voting_round_num = 1
    /\ replies = [p \in Players |-> NotAsked]
    /\ callbacks = ui_callbacks
    /\ received = nothing_received(ui_callbacks)
    /\ memory = <<>>
    /\ saved_memory = <<>>
    /\ error = NoError
    /\ result = None
    /\ executions = <<>>

\* initialize_game validating the counts only after it created the players
InitializeGame_late_validation ==
    /\ pc = "initialize_game"
    /\ \E roles \in shuffles(role_tokens(config.roles, 1)) :
          LET g == create_players(player_names, roles)
          IN  /\ role' = g.role
              /\ name' = g.name
              /\ status' = g.status
              /\ protected' = g.protected
              /\ known_roles' = g.known_roles
              /\ current_round' = 1
              /\ current_phase' = "DAY_DISCUSSION"
              /\ memory' = [p \in DOMAIN g.role |-> <<>>]
              /\ saved_memory' = [p \in DOMAIN g.role |-> <<>>]
    /\ IF Len(player_names) # total_roles(config.roles)
       THEN /\ pc' = "raised"
            /\ error' = ValueError(total_roles(config.roles), Len(player_names))
            /\ UNCHANGED events
       ELSE /\ events' = <<GameEvent("game_start", "", TRUE, <<>>, 1,
                                     "DAY_DISCUSSION")>>
            /\ pc' = "run_phase"
            /\ UNCHANGED error
    /\ UNCHANGED <<votes, actions, messages, game_over, winning_team, ret,
                   ballots, config, player_names, action_callbacks,
                   action_round_num, voting_round_num, replies, result,
                   executions>>
    /\ Emitted

\* GameController.initialize_game(player_names)
InitializeGame ==
    /\ pc = "initialize_game"
    /\ IF Len(player_names) # total_roles(config.roles)
       THEN /\ pc' = "raised"
            /\ error' = ValueError(total_roles(config.roles), Len(player_names))
            /\ UNCHANGED <<role, name, status, protected, known_roles,
                           current_round, current_phase, events, agent_memory>>
       ELSE \E roles \in shuffles(role_tokens(config.roles, 1)) :
               LET g == create_players(player_names, roles)
               IN  /\ role' = g.role
                   /\ name' = g.name
                   /\ status' = g.status
                   /\ protected' = g.protected
                   /\ known_roles' = g.known_roles
                   /\ current_round' = 1
                   /\ current_phase' = "DAY_DISCUSSION"
                   /\ events' = <<GameEvent("game_start", "", TRUE, <<>>, 1,
                                            "DAY_DISCUSSION")>>
                   /\ memory' = [p \in DOMAIN g.role |-> <<>>]
                   /\ saved_memory' = [p \in DOMAIN g.role |-> <<>>]
                   /\ pc' = "run_phase"
                   /\ UNCHANGED error
    /\ UNCHANGED <<votes, actions, messages, game_over, winning_team, ret,
                   ballots, config, player_names, action_callbacks,
                   action_round_num, voting_round_num, replies, result,
                   executions>>
    /\ Emitted

\* game_state is None: initialize_game has not (successfully) run
game_state_unset == current_phase = None

\* GameController.run_game called after initialize_game raised: the loop test
\* reads game_over of a game_state that is None
RunGameUnset ==
    /\ pc = "raised"
    /\ game_state_unset
    /\ error.type = "ValueError"
    /\ error' = AttributeError
    /\ UNCHANGED <<role, status, protected, current_round, current_phase,
                   events, votes, actions, messages, game_over, winning_team,
                   pc, ret, ballots, known_roles, night_setup, agent_memory,
                   result, executions, callbacks, received>>

NextInit == InitializeGame \/ RunGameUnset

SpecInit == InitController /\ [][NextInit]_vars

----------------------------------------------------------------------------
(* A day vote and the night that follows it, with and without the reveal   *)
(* of a dead player's role                                                 *)

\* the role assignments explored
DeathDeals ==
    { <<"DETECTIVE", "DOCTOR", "MAFIA">>,
      <<"GODFATHER", "MAFIA", "VILLAGER">>,
      <<"VILLAGER", "DETECTIVE", "GODFATHER">> }

\* the configurations explored: reveal_role_on_death on and off, with up to
\* MaxActionTime action rounds
death_configs(dist) ==
    {[default_config(dist) EXCEPT !.reveal_role_on_death = r, !.action_time = t] :
        r \in BOOLEAN, t \in 1..MaxActionTime}

\* a GameState in DAY_VOTING or NIGHT_ACTION whose players were created as
\* initialize_game creates them, all alive
InitDeath ==
    /\ \E d \in DeathDeals : \E cfg \in death_configs(role_counts(d)) :
          LET g == create_players(DefaultNames, d)
          IN  /\ role = g.role
              /\ name = g.name
              /\ status = g.status
              /\ protected = g.protected
              /\ known_roles = g.known_roles
              /\ config = cfg
              /\ current_phase \in {"DAY_VOTING", "NIGHT_ACTION"}
              /\ cfg.action_time > 1 => current_phase = "NIGHT_ACTION"
    /\ player_names = DefaultNames
    /\ current_round \in 2..MaxStartRound
    /\ events = <<>>
    /\ votes = <<>> /\ actions = <<>> /\ messages = <<>>
    /\ game_over = FALSE
    /\ winning_team = None
    /\ pc = "run_phase"
    /\ ret = FALSE
    /\ ballots = [p \in Players |-> NotAsked]
    /\ action_callbacks = <<>>
    /\ action_round_num = 1
    /\ voting_round_num = 1
    /\ replies = [p \in Players |-> NotAsked]
    /\ callbacks = ui_callbacks
    /\ received = nothing_received(ui_callbacks)
    /\ memory = [p \in Players |-> <<>>]
    /\ saved_memory = [p \in Players |-> <<>>]
    /\ error = NoError
    /\ result = None
    /\ executions = <<>>

\* the game from there on: the vote, the win check, the mafia discussion and
\* the night, until the game is over or advance_phase raises
NextDeath ==
    \/ \E b \in [Players -> BallotAnswers \cup {NotAsked}] : DayVoting(b)
    \/ NightMafiaDiscussion(said_in_game(mafia_turns(role, status, config)),
                           reacted_in_game)
    \/ NextNight
    \/ CheckGameOver
    \/ AdvancePhase

SpecDeath == InitDeath /\ [][NextDeath]_vars

----------------------------------------------------------------------------
(* A round of the game watched by observers, some of which throw           *)

\* the role assignments explored
ObserverDeals ==
    { <<"VILLAGER", "DOCTOR", "MAFIA">>,
      <<"DETECTIVE", "MAFIA", "GODFATHER">> }

\* the observers explored, each by whether its callbacks throw
ObserverLists == UNION {[1..n -> BOOLEAN] : n \in 0..MaxCallbacks}

\* a GameState at the start of the day of round 2 and a controller with the
\* observers registered
InitObservers ==
    /\ \E d \in ObserverDeals :
          LET g == create_players(DefaultNames, d)
          IN  /\ role = g.role
              /\ name = g.name
              /\ status = g.status
              /\ protected = g.protected
              /\ known_roles = g.known_roles
              /\ config = default_config(role_counts(d))
    /\ player_names = DefaultNames
    /\ current_round = 2
    /\ current_phase = "DAY_DISCUSSION"
    /\ events = <<>>
    /\ votes = <<>> /\ actions = <<>> /\ messages = <<>>
    /\ game_over = FALSE
    /\ winning_team = None
    /\ pc = "run_phase"
    /\ ret = FALSE
    /\ ballots = [p \in Players |-> NotAsked]
    /\ action_callbacks = <<>>
    /\ action_round_num = 1
    /\ voting_round_num = 1
    /\ replies = [p \in Players |-> NotAsked]
    /\ \E flags \in ObserverLists :
          /\ callbacks = register_observers(no_callbacks, flags, 1)
          /\ received = nothing_received(callbacks)
    /\ memory = [p \in Players |-> <<>>]
    /\ saved_memory = [p \in Players |-> <<>>]
    /\ error = NoError
    /\ result = None
    /\ executions = <<>>

SpecObservers == InitObservers /\ [][Next]_vars

----------------------------------------------------------------------------
(* The game from any phase of a later round, some player already dead      *)

\* a GameState in any phase of round 2; at most one player died (and was
\* revealed) before
InitLate ==
    /\ \E d \in DeathDeals, dead \in {S \in SUBSET Players : Cardinality(S) <= 1} :
       \E cfg \in death_configs(role_counts(d)) :
          LET g == create_players(DefaultNames, d)
          IN  /\ role = g.role
              /\ name = g.name
              /\ status = [p \in Players |-> IF p \in dead THEN "DEAD" ELSE "ALIVE"]
              /\ protected = g.protected
              /\ known_roles = reveal_roles(g.known_roles, g.role, cfg, dead)
              /\ config = cfg
              /\ current_phase \in GamePhase
              /\ cfg.action_time > 1 => current_phase = "NIGHT_ACTION" /\ dead = {}
    /\ player_names = DefaultNames
    /\ current_round = 2
    /\ events = <<>>
    /\ votes = <<>> /\ actions = <<>> /\ messages = <<>>
    /\ game_over = FALSE
    /\ winning_team = None
    /\ pc = "run_phase"
    /\ ret = FALSE
    /\ ballots = [p \in Players |-> NotAsked]
    /\ action_callbacks = <<>>
    /\ action_round_num = 1
    /\ voting_round_num = 1
    /\ replies = [p \in Players |-> NotAsked]
    /\ callbacks = ui_callbacks
    /\ received = nothing_received(ui_callbacks)
    /\ memory = [p \in Players |-> <<>>]
    /\ saved_memory = [p \in Players |-> <<>>]
    /\ error = NoError
    /\ result = None
    /\ executions = <<>>

\* run_game from there on
NextLate ==
    \/ DayDiscussion(said_in_game(discussion_turns(status, config)), reacted_in_game)
    \/ NextDeath

SpecLate == InitLate /\ [][NextLate]_vars

----------------------------------------------------------------------------
(* Games with several voting rounds, several action rounds and reactions   *)

\* the role assignments explored
RoundsDeals ==
    { <<"VILLAGER", "DOCTOR", "MAFIA">>,
      <<"MAFIA", "GODFATHER", "VILLAGER">> }

\* the configurations explored: up to MaxVotingTime voting rounds and
\* MaxActionTime action rounds, reactions in both discussions or in none
rounds_configs(dist) ==
    {[default_config(dist) EXCEPT !.voting_time = v, !.action_time = t,
                                  !.enable_reactions = e,
                                  !.enable_mafia_reactions = e,
                                  !.mafia_discussion_rounds = 1] :
        v \in 1..MaxVotingTime, t \in 1..MaxActionTime, e \in BOOLEAN}

\* the vote logs the game starts from: empty, or holding two Votes of round 1
\* against the same player (as test_village_win_scenario appends them)
OldVotes ==
    {<<>>} \cup {<<Vote(PlayerOrder[1], t, 1), Vote(PlayerOrder[2], t, 1)>> :
                    t \in {PlayerOrder[3]}}

\* a GameState in round 2 whose players were created as initialize_game
\* creates them, all alive
InitRounds ==
    /\ \E d \in RoundsDeals : \E cfg \in rounds_configs(role_counts(d)) :
          LET g == create_players(DefaultNames, d)
          IN  /\ role = g.role
              /\ name = g.name
              /\ status = g.status
              /\ protected = g.protected
              /\ known_roles = g.known_roles
              /\ config = cfg
              /\ current_phase \in GamePhase
              /\ cfg.voting_time > 1 => current_phase = "DAY_VOTING"
              /\ cfg.action_time > 1 => current_phase = "NIGHT_ACTION"
              /\ cfg.enable_reactions =>
                    current_phase \in {"DAY_DISCUSSION", "NIGHT_MAFIA_DISCUSSION"}
    /\ player_names = DefaultNames
    /\ current_round = 2
    /\ events = <<>>
    /\ votes \in OldVotes
    /\ votes # <<>> => current_phase = "DAY_VOTING" /\ config.voting_time = 1
    /\ actions = <<>> /\ messages = <<>>
    /\ game_over = FALSE
    /\ winning_team = None
    /\ pc = "run_phase"
    /\ ret = FALSE
    /\ ballots = [p \in Players |-> NotAsked]
    /\ action_callbacks = <<>>
    /\ action_round_num = 1
    /\ voting_round_num = 1
    /\ replies = [p \in Players |-> NotAsked]
    /\ callbacks = ui_callbacks
    /\ received = nothing_received(ui_callbacks)
    /\ memory = [p \in Players |-> <<>>]
    /\ saved_memory = [p \in Players |-> <<>>]
    /\ error = NoError
    /\ result = None
    /\ executions = <<>>

\* the event types registered while the game runs, and how many callbacks
\* are registered under one of them at most
RegisteredTypes == {"vote_result", UnknownEventType}
MaxRegistrations == 1

\* the reactions explored: the agents all react alike
ReactionsExplored == {[p \in Players |-> r] : r \in Reactions}

\* the ballots explored: every answer in a phase of one voting round; in a
\* phase of several, the voters who name a player name the same alive player
RoundsBallots ==
    {b \in [Players -> BallotAnswers \cup {NotAsked}] :
        config.voting_time > 1 =>
            \E x \in Players :
                /\ is_alive(status, x)
                /\ \A p \in Players : b[p] \in {NotAsked, EmptyTarget, x}
                /\ b[x] # x}

\* the replies to the night prompt explored: every agent names nothing or an
\* alive player other than its own
RoundsReplies ==
    {a \in [Players -> Players \cup {NoAction}] :
        \A p \in Players :
            /\ a[p] \in NightAnswers(role[p])
            /\ a[p] = NoAction \/ (a[p] # p /\ is_alive(status, a[p]))}

\* no phase has run yet
before_first_phase ==
    /\ events = <<>> /\ messages = <<>>
    /\ \A p \in Players : ballots[p] = NotAsked /\ replies[p] = NotAsked

\* GameController.register_callback(event_type, callback), called before the
\* first phase runs (as ui/app.py calls it)
RegisterCallback(event_type, throws) ==
    /\ before_first_phase
    /\ event_type \in callback_keys =>
          Len(callbacks[event_type]) < MaxRegistrations
    /\ callbacks' = register_callback(callbacks, event_type, throws)
    /\ received' = IF event_type \in callback_keys
                   THEN [received EXCEPT ![event_type] = Append(@, <<>>)]
                   ELSE received
    /\ UNCHANGED <<role, status, protected, current_round, current_phase,
                   events, votes, actions, messages, game_over, winning_team,
                   pc, ret, ballots, known_roles, night_setup, agent_memory,
                   call_outcome>>

\* run_game from there on, callbacks being registered meanwhile
NextRounds ==
    \/ \E re \in ReactionsExplored :
          DayDiscussion(said_in_game(discussion_turns(status, config)), re)
    \/ \E b \in RoundsBallots : DayVoting(b)
    \/ \E re \in ReactionsExplored :
          NightMafiaDiscussion(said_in_game(mafia_turns(role, status, config)), re)
    \/ \E a \in RoundsReplies : NightAction(a)
    \/ CheckGameOver
    \/ AdvancePhase
    \/ \E event_type \in RegisteredTypes : RegisterCallback(event_type, FALSE)

SpecRounds == InitRounds /\ [][NextRounds]_vars

----------------------------------------------------------------------------
(* The two discussion phases on a GameState built directly in the phase,   *)
(* for every number of rounds configured and whatever the models say       *)

\* the configurations explored: the same number of rounds for both discussions
talk_configs(dist) ==
    {[default_config(dist) EXCEPT !.discussion_rounds = r,
                                  !.mafia_discussion_rounds = r] :
        r \in 0..MaxDiscussionRounds}

\* a GameState in a discussion phase whose players were created as
\* initialize_game creates them; up to two of them have died
InitTalk ==
    /\ \E d \in NightDeals, dead \in {S \in SUBSET Players : Cardinality(S) <= 2} :
       \E cfg \in talk_configs(role_counts(d)) :
          LET g == create_players(DefaultNames, d)
          IN  /\ role = g.role
              /\ name = g.name
              /\ status = [p \in Players |-> IF p \in dead THEN "DEAD" ELSE "ALIVE"]
              /\ protected = g.protected
              /\ known_roles = reveal_roles(g.known_roles, g.role, cfg, dead)
              /\ config = cfg
    /\ player_names = DefaultNames
    /\ current_round \in 1..MaxStartRound
    /\ current_phase \in {"DAY_DISCUSSION", "NIGHT_MAFIA_DISCUSSION"}
    /\ events = <<>>
    /\ votes = <<>> /\ actions = <<>> /\ messages = <<>>
    /\ game_over = FALSE
    /\ winning_team = None
    /\ pc = "run_phase"
    /\ ret = FALSE
    /\ ballots = [p \in Players |-> NotAsked]
    /\ action_callbacks = <<>>
    /\ action_round_num = 1
    /\ voting_round_num = 1
    /\ replies = [p \in Players |-> NotAsked]
    /\ callbacks = ui_callbacks
    /\ received = nothing_received(ui_callbacks)
    /\ memory = [p \in Players |-> <<>>]
    /\ saved_memory = [p \in Players |-> <<>>]
    /\ error = NoError
    /\ result = None
    /\ executions = <<>>

\* what the models may say in a phase of k turns
said(k) == [1..k -> Contents]

NextTalk ==
    \/ \E c \in said(discussion_turns(status, config)) :
          DayDiscussion(c, reacted_in_game)
    \/ \E c \in said(mafia_turns(role, status, config)) :
          NightMafiaDiscussion(c, reacted_in_game)

SpecTalk == InitTalk /\ [][NextTalk]_vars

----------------------------------------------------------------------------
(* The visibility query on event logs built by hand, as the unit tests     *)
(* build them (game_state.events.append)                                   *)

\* the players of the GameState the logs are built on
QueryDeal == <<"VILLAGER", "DOCTOR", "MAFIA">>

\* the target lists of the events appended
TargetLists ==
    {<<>>, <<"player_1">>, <<"player_2">>, <<"player_3">>, <<"player_1", "player_2">>}

\* the events appended: public or private, with any of the target lists
LoggedEvents ==
    {GameEvent("private_event", "", public, targets, 1, "DAY_DISCUSSION") :
        public \in BOOLEAN, targets \in TargetLists}

\* a GameState(players=players) with empty logs
InitVisibility ==
    /\ constructed_players(QueryDeal)
    /\ config = default_config(role_counts(QueryDeal))
    /\ current_round = 1
    /\ current_phase = "DAY_DISCUSSION"
    /\ events = <<>>
    /\ votes = <<>> /\ actions = <<>> /\ messages = <<>>
    /\ game_over = FALSE
    /\ winning_team = None
    /\ pc = "call"
    /\ ret = FALSE
    /\ ballots = [p \in Players |-> NotAsked]
    /\ action_callbacks = <<>>
    /\ action_round_num = 1
    /\ voting_round_num = 1
    /\ replies = [p \in Players |-> NotAsked]
    /\ callbacks = no_callbacks
    /\ received = nothing_received(no_callbacks)
    /\ memory = [p \in Players |-> <<>>]
    /\ saved_memory = [p \in Players |-> <<>>]
    /\ error = NoError
    /\ result = None
    /\ executions = <<>>

\* game_state.events.append(event)
AppendEvent(event) ==
    /\ pc = "call"
    /\ Len(events) < MaxLog
    /\ events' = Append(events, event)
    /\ UNCHANGED <<role, status, protected, current_round, current_phase,
                   votes, actions, messages, game_over, winning_team,
                   pc, ret, ballots, known_roles, night_setup, agent_memory,
                   call_outcome, callbacks, received>>

\* a call of game_state.get_player_events(pid): result holds what it returns
GetPlayerEvents(pid) ==
    /\ pc = "call"
    /\ result' = [player_id |-> pid, returned |-> get_player_events(events, pid)]
    /\ pc' = "called"
    /\ UNCHANGED <<role, status, protected, current_round, current_phase,
                   events, votes, actions, messages, game_over, winning_team,
                   ret, ballots, known_roles, night_setup, agent_memory,
                   error, executions, callbacks, received>>

NextVisibility ==
    \/ \E event \in LoggedEvents : AppendEvent(event)
    \/ \E pid \in Players \cup {UnknownId} : GetPlayerEvents(pid)

SpecVisibility == InitVisibility /\ [][NextVisibility]_vars

----------------------------------------------------------------------------
(* BaseAgent.update_memory of one agent on logs built by hand, as          *)
(* test_update_memory builds them                                          *)

\* the player the agent was created for
AgentPlayer == "player_1"

\* the events appended: a public one, one private to the agent's player and
\* one private to another player
MemoryEvents ==
    { GameEvent("test_event", "", TRUE, <<>>, 1, "DAY_DISCUSSION"),
      GameEvent("private_event", "", FALSE, <<AgentPlayer>>, 1, "DAY_DISCUSSION"),
      GameEvent("private_event", "", FALSE, <<"player_2">>, 1, "DAY_DISCUSSION") }

\* the messages appended: public ones of player_2 and one of player_3 to
\* player_2 only
MemoryMessages ==
    {Message("player_2", c, 1, "DAY_DISCUSSION", TRUE, <<>>) : c \in Contents}
    \cup {Message("player_3", SaidInGame, 1, "DAY_DISCUSSION", FALSE, <<"player_2">>)}

\* a GameState(players=players) with empty logs and an agent for AgentPlayer,
\* with or without a memory limit
InitMemory ==
    /\ constructed_players(QueryDeal)
    /\ \E k \in 0..MaxMemoryLimit :
          config = [default_config(role_counts(QueryDeal)) EXCEPT !.memory_limit = k]
    /\ current_round = 1
    /\ current_phase = "DAY_DISCUSSION"
    /\ events = <<>>
    /\ votes = <<>> /\ actions = <<>> /\ messages = <<>>
    /\ game_over = FALSE
    /\ winning_team = None
    /\ pc = "call"
    /\ ret = FALSE
    /\ ballots = [p \in Players |-> NotAsked]
    /\ action_callbacks = <<>>
    /\ action_round_num = 1
    /\ voting_round_num = 1
    /\ replies = [p \in Players |-> NotAsked]
    /\ callbacks = no_callbacks
    /\ received = nothing_received(no_callbacks)
    /\ memory = [p \in {AgentPlayer} |-> <<>>]
    /\ saved_memory = [p \in {AgentPlayer} |-> <<>>]
    /\ error = NoError
    /\ result = None
    /\ executions = <<>>

\* game_state.messages.append(msg)
AppendMessage(msg) ==
    /\ pc = "call"
    /\ Len(messages) < MaxLog
    /\ messages' = Append(messages, msg)
    /\ UNCHANGED <<role, status, protected, current_round, current_phase,
                   events, votes, actions, game_over, winning_team,
                   pc, ret, ballots, known_roles, night_setup, agent_memory,
                   call_outcome, callbacks, received>>

\* agent.update_memory(game_state) of the agent of player pid
UpdateMemory(pid) ==
    /\ pc = "call"
    /\ pid \in DOMAIN memory
    /\ LET u == update_memory(pid, events, messages, name, memory[pid],
                              saved_memory[pid], config.memory_limit)
       IN  /\ memory' = [memory EXCEPT ![pid] = u.memory]
           /\ saved_memory' = [saved_memory EXCEPT ![pid] = u.saved_memory]
    /\ UNCHANGED <<role, status, protected, current_round, current_phase,
                   events, votes, actions, messages, game_over, winning_team,
                   pc, ret, ballots, known_roles, night_setup,
                   call_outcome, callbacks, received>>

\* logs of up to MaxLog entries in all, updated at any point
NextMemory ==
    \/ \E event \in MemoryEvents :
          Len(events) + Len(messages) < MaxLog /\ AppendEvent(event)
    \/ \E msg \in MemoryMessages :
          Len(events) + Len(messages) < MaxLog /\ AppendMessage(msg)
    \/ UpdateMemory(AgentPlayer)

SpecMemory == InitMemory /\ [][NextMemory]_vars

----------------------------------------------------------------------------
(* The game stepped from the web UI: each next_phase request starts        *)
(* GameManager.execute_phase as a background task (ui/app.py)              *)

\* the configuration _create_game_config builds: one action round, the
\* mechanics enabled, no memory limit, discussionRounds = 1 for both discussions
ui_config(dist) ==
    [default_config(dist) EXCEPT !.action_time = 1,
                                 !.voting_time = 1,
                                 !.discussion_rounds = 1,
                                 !.mafia_discussion_rounds = 1]

\* the role assignments explored
UIDeals ==
    { <<"VILLAGER", "DOCTOR", "MAFIA">>,
      <<"DETECTIVE", "VILLAGER", "GODFATHER">> }

\* the executions of execute_phase that have started and not yet returned
in_progress(ex) ==
    {t \in 1..Len(ex) : ex[t] \in {"check_game_over", "run_phase", "advance_phase"}}

\* a game of the GameManager with the callbacks of the UI registered, in any
\* round and phase; no request was sent yet
InitUI ==
    /\ \E d \in UIDeals :
          LET g == create_players(DefaultNames, d)
          IN  /\ role = g.role
              /\ name = g.name
              /\ status = g.status
              /\ protected = g.protected
              /\ known_roles = g.known_roles
              /\ config = ui_config(role_counts(d))
    /\ player_names = DefaultNames
    /\ current_round \in 1..MaxStartRound
    /\ current_phase \in GamePhase
    /\ current_round = 1 => current_phase \in {"DAY_DISCUSSION", "NIGHT_MAFIA_DISCUSSION"}
    /\ events = <<>>
    /\ votes = <<>> /\ actions = <<>> /\ messages = <<>>
    /\ game_over = FALSE
    /\ winning_team = None
    /\ pc = None
    /\ ret = FALSE
    /\ ballots = [p \in Players |-> NotAsked]
    /\ action_callbacks = <<>>
    /\ action_round_num = 1
    /\ voting_round_num = 1
    /\ replies = [p \in Players |-> NotAsked]
    /\ callbacks = ui_callbacks
    /\ received = nothing_received(ui_callbacks)
    /\ memory = [p \in Players |-> <<>>]
    /\ saved_memory = [p \in Players |-> <<>>]
    /\ error = NoError
    /\ result = None
    /\ executions = <<>>

\* handle_next_phase: unless the game is over, execute_phase is started as a
\* background task; nothing tells whether an earlier one is still running
HandleNextPhase ==
    /\ Len(executions) < MaxRequests
    /\ ~game_over
    /\ executions' = Append(executions, "check_game_over")
    /\ UNCHANGED <<role, status, protected, current_round, current_phase,
                   events, votes, actions, messages, game_over, winning_team,
                   pc, ret, ballots, known_roles, night_setup, agent_memory,
                   error, result, callbacks, received>>

\* execute_phase of task t: "if self.game.game_controller.check_game_over(): return"
ExecutePhase_check_game_over(t) ==
    /\ t \in 1..Len(executions)
    /\ executions[t] = "check_game_over"
    /\ LET r == GameState_check_game_over(role, status, game_over, winning_team)
       IN  /\ ret' = r.ret
           /\ game_over' = r.game_over
           /\ winning_team' = r.winning_team
           /\ events' = IF r.ret
                        THEN add_game_event(events, "game_over", r.winning_team, TRUE,
                                            <<>>, current_round, current_phase)
                        ELSE events
           /\ executions' = [executions EXCEPT
                                ![t] = IF r.ret THEN "returned" ELSE "run_phase"]
    /\ UNCHANGED <<role, status, protected, current_round, current_phase,
                   votes, actions, messages, ballots, pc>>
    /\ UNCHANGED <<known_roles, night_setup, agent_memory, error, result>>
    /\ Emitted

\* execute_phase of task t: run_phase has returned
after_run_phase(t) ==
    /\ t \in 1..Len(executions)
    /\ executions[t] = "run_phase"
    /\ executions' = [executions EXCEPT ![t] = "advance_phase"]
    /\ UNCHANGED pc

\* execute_phase of task t: advance_phase, and the except clause that logs
\* what it raises
ExecutePhase_advance_phase(t) ==
    /\ t \in 1..Len(executions)
    /\ executions[t] = "advance_phase"
    /\ advance_phase
    /\ executions' = [executions EXCEPT ![t] = "returned"]
    /\ UNCHANGED pc

\* the ballots explored: every voter names the same player (who abstains), or
\* nobody answers
UIBallots ==
    {b \in [Players -> BallotAnswers \cup {NotAsked}] :
        \E x \in Players \cup {EmptyTarget} :
            \A p \in Players :
                b[p] = IF ~is_alive(status, p) THEN NotAsked
                       ELSE IF p = x THEN EmptyTarget ELSE x}

\* the replies to the night prompt explored: no action, or a valid target
UIReplies ==
    {a \in [Players -> Players \cup {NoAction}] :
        \A p \in Players :
            a[p] = NoAction \/ (a[p] # p /\ is_alive(status, a[p]) /\ is_alive(status, p))}

NextUI ==
    \/ HandleNextPhase
    \/ \E t \in 1..MaxRequests : ExecutePhase_check_game_over(t)
    \/ \E t \in 1..MaxRequests :
          after_run_phase(t)
          /\ DayDiscussion_run_phase(said_in_game(discussion_turns(status, config)),
                                    reacted_in_game)
    \/ \E t \in 1..MaxRequests : \E b \in UIBallots :
          after_run_phase(t) /\ DayVoting_run_phase(b)
    \/ \E t \in 1..MaxRequests :
          after_run_phase(t)
          /\ NightMafiaDiscussion_run_phase(
                said_in_game(mafia_turns(role, status, config)), reacted_in_game)
    \/ \E t \in 1..MaxRequests : \E a \in UIReplies :
          after_run_phase(t) /\ NightAction_run_phase(a)
    \/ \E t \in 1..MaxRequests : ExecutePhase_advance_phase(t)

SpecUI == InitUI /\ [][NextUI]_vars

----------------------------------------------------------------------------
(* Properties of the orchestrator                                          *)

\* number of events of a type in an event list
CountEvents(evs, type) ==
    Cardinality({i \in 1..Len(evs) : evs[i].event_type = type})

\* the run started from initialize_game (only it emits game_start)
FromInitializeGame == Len(events) > 0 /\ events[1].event_type = "game_start"

\* C1: in a run that starts from initialize_game and is driven by run_game, the
\* phase is never DAY_VOTING or NIGHT_ACTION while current_round = 1, and no vote
\* and no night action is recorded with round 1.
C1_NoVotingNoNightActionInRound1 ==
    FromInitializeGame =>
        /\ current_round = 1 => current_phase \notin {"DAY_VOTING", "NIGHT_ACTION"}
        /\ \A i \in 1..Len(votes) : votes[i].round_num # 1
        /\ \A i \in 1..Len(actions) : actions[i].round_num # 1

\* round 1 of an initialized game went from DAY_DISCUSSION to the mafia discussion
C1_Witness ==
    /\ FromInitializeGame
    /\ current_round = 1
    /\ current_phase = "NIGHT_MAFIA_DISCUSSION"
    /\ pc = "check_game_over"
    /\ ~game_over

\* the successor of a phase in the cyclic order
successor(ph) ==
    CASE ph = "DAY_DISCUSSION" -> "DAY_VOTING"
      [] ph = "DAY_VOTING" -> "NIGHT_MAFIA_DISCUSSION"
      [] ph = "NIGHT_MAFIA_DISCUSSION" -> "NIGHT_ACTION"
      [] ph = "NIGHT_ACTION" -> "DAY_DISCUSSION"

\* C2: for current_round >= 2 every call of advance_phase moves the phase to its
\* successor in the cyclic order, and every call of advance_phase (in any round)
\* appends exactly one public phase_change event tagged with the phase entered.
C2_AdvanceFollowsCycleAndEmitsPhaseChange ==
    [][pc = "advance_phase" =>
        /\ current_round >= 2 => current_phase' = successor(current_phase)
        /\ CountEvents(events', "phase_change") = CountEvents(events, "phase_change") + 1
        /\ Len(events') > Len(events)
        /\ events'[Len(events')].event_type = "phase_change"
        /\ events'[Len(events')].public
        /\ events'[Len(events')].phase = current_phase']_vars

\* C3: current_round increases by exactly 1 on every advance_phase whose next
\* phase is DAY_DISCUSSION, with exactly one public new_round event appended
\* before the phase_change event, and is unchanged by every other step.
C3_RoundIncrementsOnEnteringDayDiscussion ==
    [][IF pc = "advance_phase"
          /\ next_phase(current_phase, current_round) = "DAY_DISCUSSION"
       THEN /\ current_round' = current_round + 1
            /\ Len(Appended(events, events')) = 2
            /\ Appended(events, events')[1].event_type = "new_round"
            /\ Appended(events, events')[1].public
            /\ Appended(events, events')[2].event_type = "phase_change"
       ELSE /\ current_round' = current_round
            /\ CountEvents(events', "new_round") = CountEvents(events, "new_round")]_vars

\* the win condition of section 4.7 on the current players
WinCondition ==
    \/ alive_mafia_count(role, status) = 0
    \/ alive_mafia_count(role, status) >= alive_village_count(role, status)

C4_State ==
    /\ pc = "advance_phase" => ~WinCondition /\ ~game_over
    /\ game_over =>
          /\ pc = "returned"
          /\ CountEvents(events, "game_over") = 1
          /\ events[Len(events)].event_type = "game_over"
    /\ ~game_over => CountEvents(events, "game_over") = 0

C4_Step ==
    /\ ~game_over
    /\ pc = "run_phase" => pc' \in {"check_game_over", "raised"}
    /\ pc = "check_game_over" /\ WinCondition => game_over' /\ pc' = "returned"

\* C4: run_game evaluates the win condition after every phase execution; once it
\* is satisfied the loop ends: no step (no advance_phase, event, round increment
\* or phase execution) follows, and exactly one game_over event was appended,
\* the last of the log.
C4_LoopEndsWhenWinConditionHolds == [](C4_State) /\ [][C4_Step]_vars

\* the game ended on a satisfied win check after at least one phase transition
C4_Witness ==
    /\ game_over
    /\ pc = "returned"
    /\ CountEvents(events, "phase_change") > 0
    /\ events[Len(events)].event_type = "game_over"

----------------------------------------------------------------------------
(* GameState.check_game_over on every player map: a state built directly   *)
(* with any roles and statuses, then the method is called                  *)

InitWin ==
    /\ role \in [Players -> PlayerRole]
    /\ status \in [Players -> PlayerStatus]
    /\ protected = [p \in Players |-> FALSE]
    /\ current_round = 1
    /\ current_phase = "DAY_DISCUSSION"
    /\ events = <<>>
    /\ votes = <<>> /\ actions = <<>> /\ messages = <<>>
    /\ \E prior \in {<<FALSE, None>>, <<TRUE, "VILLAGE">>, <<TRUE, "MAFIA">>} :
           game_over = prior[1] /\ winning_team = prior[2]
    /\ pc = "call"
    /\ ret = FALSE
    /\ ballots = [p \in Players |-> NotAsked]
    /\ known_roles = [p \in Players |-> [q \in Players |-> None]]
    /\ name = [p \in Players |-> p]
    /\ config = default_config(role_counts(<<>>))
    /\ player_names = <<>>
    /\ action_callbacks = <<>>
    /\ action_round_num = 1
    /\ voting_round_num = 1
    /\ replies = [p \in Players |-> NotAsked]
    /\ callbacks = no_callbacks
    /\ received = nothing_received(no_callbacks)
    /\ memory = [p \in Players |-> <<>>]
    /\ saved_memory = [p \in Players |-> <<>>]
    /\ error = NoError
    /\ result = None
    /\ executions = <<>>

\* a direct call of GameState.check_game_over
CallCheckGameOver ==
    /\ pc = "call"
    /\ LET r == GameState_check_game_over(role, status, game_over, winning_team)
       IN  /\ ret' = r.ret
           /\ game_over' = r.game_over
           /\ winning_team' = r.winning_team
    /\ pc' = "called"
    /\ UNCHANGED <<role, status, protected, current_round, current_phase,
                   events, votes, actions, messages, ballots>>
    /\ UNCHANGED <<known_roles, night_setup, agent_memory, call_outcome>>
    /\ UNCHANGED <<callbacks, received>>

NextWin == CallCheckGameOver

SpecWin == InitWin /\ [][NextWin]_vars

\* C5 as stated: the call returns true iff mafia = 0 or mafia >= village; on
\* true it sets game_over and sets winning_team to VILLAGE if mafia = 0 and to
\* MAFIA if mafia >= village; on false it leaves both fields unchanged.
C5_AsStated ==
    [][pc = "call" =>
        LET m == alive_mafia_count(role, status)
            v == alive_village_count(role, status)
        IN  /\ ret' <=> (m = 0 \/ m >= v)
            /\ ret' => /\ game_over'
                       /\ m = 0 => winning_team' = "VILLAGE"
                       /\ m >= v => winning_team' = "MAFIA"
            /\ ~ret' => UNCHANGED <<game_over, winning_team>>]_vars

\* C5 (amended): the call returns true iff mafia = 0 or mafia >= village; on
\* true it sets game_over and sets winning_team to VILLAGE if mafia = 0 and to
\* MAFIA if mafia >= village and mafia > 0; on false it leaves both fields
\* unchanged.  After a true result winning_team is set, MAFIA implies
\* mafia >= village and VILLAGE implies mafia = 0.
C5_CheckGameOverResult ==
    [][pc = "call" =>
        LET m == alive_mafia_count(role, status)
            v == alive_village_count(role, status)
        IN  /\ ret' <=> (m = 0 \/ m >= v)
            /\ ret' => /\ game_over'
                       /\ m = 0 => winning_team' = "VILLAGE"
                       /\ m >= v /\ m > 0 => winning_team' = "MAFIA"
                       /\ winning_team' \in TeamAlignment
                       /\ winning_team' = "MAFIA" => m >= v
                       /\ winning_team' = "VILLAGE" => m = 0
            /\ ~ret' => UNCHANGED <<game_over, winning_team>>]_vars

\* a call at exact parity with Mafia alive returned true for the Mafia
C5_Witness ==
    /\ pc = "called"
    /\ ret
    /\ winning_team = "MAFIA"
    /\ alive_mafia_count(role, status) = 1
    /\ alive_village_count(role, status) = 1

----------------------------------------------------------------------------
(* Properties of the win check in a game, of day voting and of the night   *)

\* C6: at every evaluation of the win condition reachable in a game, the
\* Village condition (no Mafia alive) and the Mafia condition (Mafia >= Village
\* alive) do not hold together: no evaluation sees nobody alive on both teams.
C6_WinConditionsExclusive ==
    pc = "check_game_over" =>
        ~(/\ alive_mafia_count(role, status) = 0
          /\ alive_mafia_count(role, status) >= alive_village_count(role, status))

\* an evaluation at which the Village condition holds, after a death
C6_Witness ==
    /\ pc = "check_game_over"
    /\ alive_mafia_count(role, status) = 0
    /\ alive_village_count(role, status) > 0
    /\ \E p \in Players : ~is_alive(status, p)

\* the step is one voting round
VotingStep == pc = "run_phase" /\ current_phase = "DAY_VOTING"

\* number of Votes for target t among the Votes vs
BallotCount(vs, t) == Cardinality({i \in 1..Len(vs) : vs[i].target_id = t})

\* the targets with the maximum count among the Votes vs
Leaders(vs) ==
    {t \in Players : /\ BallotCount(vs, t) > 0
                     /\ \A u \in Players : BallotCount(vs, u) <= BallotCount(vs, t)}

\* the events a voting round appends after its vote events
Outcome(vs, old, new) == SubSeq(new, Len(old) + Len(vs) + 1, Len(new))

\* C7: the ballots of a voting round are tallied by count per target; with one
\* target at the maximum that player becomes DEAD and a public vote_result
\* event followed by a public elimination event is appended; with two or more
\* at the maximum no status changes and a single public tie event is appended.
C7_VoteResolution ==
    [][VotingStep =>
        LET cast == Appended(votes, votes')
            out == Outcome(cast, events, events')
        IN  /\ Cardinality(Leaders(cast)) = 1 =>
                 \E x \in Leaders(cast) :
                    /\ status' = [status EXCEPT ![x] = "DEAD"]
                    /\ Len(out) = 2
                    /\ out[1].event_type = "vote_result" /\ out[1].public
                    /\ out[1].outcome = "eliminated" /\ out[1].targets = <<x>>
                    /\ out[2].event_type = "elimination" /\ out[2].public
                    /\ out[2].targets = <<x>>
            /\ Cardinality(Leaders(cast)) > 1 =>
                    /\ status' = status
                    /\ Len(out) = 1
                    /\ out[1].event_type = "vote_result" /\ out[1].public
                    /\ out[1].outcome = "tie"]_vars

\* a voting round ended in a tie and eliminated nobody
C7_Witness ==
    /\ pc = "check_game_over"
    /\ current_phase = "DAY_VOTING"
    /\ Len(votes) >= 2
    /\ events[Len(events)].outcome = "tie"
    /\ \A p \in Players : is_alive(status, p)

\* the ballot b[p] of voter p is valid: it names another player who is alive
ValidBallot(b, st, p) ==
    /\ b[p] \in Players
    /\ is_alive(st, b[p])
    /\ b[p] # p

C8_State ==
    \A i \in 1..Len(votes) :
        /\ votes[i].voter_id # votes[i].target_id
        /\ \A j \in 1..Len(votes) :
              (votes[j].voter_id = votes[i].voter_id
                 /\ votes[j].round_num = votes[i].round_num) => j = i

C8_Step ==
    VotingStep =>
        LET cast == Appended(votes, votes')
            new == Appended(events, events')
        IN  /\ pc' = "check_game_over"
            /\ \A p \in Players :
                  LET mine == {i \in 1..Len(cast) : cast[i].voter_id = p}
                  IN  IF is_alive(status, p) /\ ValidBallot(ballots', status, p)
                      THEN /\ Cardinality(mine) = 1
                           /\ \A i \in mine : cast[i].target_id = ballots'[p]
                      ELSE mine = {}
            /\ \A i \in 1..Len(cast) :
                  /\ is_alive(status, cast[i].voter_id)
                  /\ is_alive(status, cast[i].target_id)
            /\ CountEvents(new, "vote") = Len(cast)
            /\ \A x \in Players :
                  status'[x] # status[x] => \E i \in 1..Len(cast) : cast[i].target_id = x

\* C8: a ballot whose target is empty, not an alive player, or the voter is
\* discarded: no Vote, no vote event, not counted, no exception, and the other
\* voters still vote.  Every Vote in the log has voter # target, both alive
\* when cast, and a player has at most one Vote per voting round.
C8_InvalidBallotsDiscarded == [](C8_State) /\ [][C8_Step]_vars

\* a voting round with a self-vote, an unknown target and one valid ballot
C8_Witness ==
    /\ pc = "check_game_over"
    /\ current_phase = "DAY_VOTING"
    /\ \E p \in Players : ballots[p] = p
    /\ \E p \in Players : ballots[p] \in {UnknownId, EmptyTarget}
    /\ Len(votes) = 1

\* the voting round that just ran had at least one valid ballot and every
\* valid ballot named m, the only Mafia-aligned player alive in it
UnanimousOnLoneMafia(m) ==
    /\ current_phase = "DAY_VOTING"
    /\ pc \in {"check_game_over", "returned"}
    /\ team(role[m]) = "MAFIA"
    /\ ballots[m] # NotAsked
    /\ \A q \in Players \ {m} : team(role[q]) = "MAFIA" => ballots[q] = NotAsked
    /\ \E p \in Players : ballots[p] = m /\ p # m
    /\ \A p \in Players :
          (ballots[p] \in Players /\ ballots[ballots[p]] # NotAsked /\ ballots[p] # p)
             => ballots[p] = m

C9_State ==
    \A m \in Players :
        UnanimousOnLoneMafia(m) =>
            /\ status[m] = "DEAD"
            /\ pc = "returned" => ret /\ game_over /\ winning_team = "VILLAGE"

C9_Step ==
    \A m \in Players :
        (UnanimousOnLoneMafia(m) /\ pc = "check_game_over") =>
            ret' /\ game_over' /\ winning_team' = "VILLAGE"

\* C9: when the ballots of a voting round unanimously target the only alive
\* Mafia-aligned player, the round marks that player DEAD and the win check
\* that follows returns true with winning_team = VILLAGE.
C9_UnanimousVoteOnLoneMafia == [](C9_State) /\ [][C9_Step]_vars

\* the game returned a Village win after such a vote
C9_Witness ==
    /\ pc = "returned"
    /\ \E m \in Players : UnanimousOnLoneMafia(m)
    /\ winning_team = "VILLAGE"

\* the step is one night-action round in which no lookup raised
NightStep == pc = "run_phase" /\ current_phase = "NIGHT_ACTION" /\ pc' # "raised"

\* the last Action of the Actions acts submitted by a player of role r
LastOf(acts, r) ==
    LET idx == {i \in 1..Len(acts) : role[acts[i].actor_id] = r}
    IN  IF idx = {} THEN NoneAction
        ELSE acts[CHOOSE i \in idx : \A j \in idx : j <= i]

\* the kill that is resolved: the Godfather's, otherwise the Mafia's
ResolvedKill(acts) ==
    IF LastOf(acts, "GODFATHER") # NoneAction THEN LastOf(acts, "GODFATHER")
    ELSE LastOf(acts, "MAFIA")

\* C10: if in one night the Doctor protects X and the resolved kill targets X,
\* X's status is unchanged (X is still ALIVE), a private kill_failed event for
\* the Mafia team and then a public peaceful-night event are appended, and no
\* night_elimination event is appended.
C10_ProtectedTargetSurvives ==
    [][NightStep =>
        LET acts == Appended(actions, actions')
            new == Appended(events, events')
            kill == ResolvedKill(acts)
            protect == LastOf(acts, "DOCTOR")
        IN  (kill # NoneAction /\ protect # NoneAction
               /\ kill.target_id = protect.target_id) =>
                /\ status' = status
                /\ Len(new) >= 2
                /\ new[Len(new) - 1].event_type = "kill_failed"
                /\ ~new[Len(new) - 1].public
                /\ \A p \in Players :
                      (team(role[p]) = "MAFIA" /\ is_alive(status, p)) =>
                          \E i \in 1..Len(new[Len(new) - 1].targets) :
                              new[Len(new) - 1].targets[i] = p
                /\ \A i \in 1..Len(new[Len(new) - 1].targets) :
                      team(role[new[Len(new) - 1].targets[i]]) = "MAFIA"
                /\ new[Len(new)].event_type = "night_result"
                /\ new[Len(new)].public
                /\ new[Len(new)].outcome = "peaceful"
                /\ CountEvents(new, "night_elimination") = 0
                /\ CountEvents(new, "kill_success") = 0]_vars

\* a night in which the kill was blocked by the protection of an alive player
C10_Witness ==
    /\ pc = "check_game_over"
    /\ current_phase = "NIGHT_ACTION"
    /\ Len(events) >= 2
    /\ events[Len(events) - 1].event_type = "kill_failed"
    /\ \E i \in 1..Len(actions), j \in 1..Len(actions) :
          /\ actions[i].action_type = "protect"
          /\ actions[j].action_type = "kill"
          /\ actions[i].target_id = actions[j].target_id
          /\ is_alive(status, actions[i].target_id)

----------------------------------------------------------------------------
(* Properties of the night-action resolver                                 *)

\* positions in an event list of the events of the given types
Positions(evs, types) == {i \in 1..Len(evs) : evs[i].event_type \in types}

\* the doctor's action of the action round
ResolvedProtect(acts) == LastOf(acts, "DOCTOR")

\* C11: if a kill action is resolved and its target is not the player
\* protected this night, the target's status becomes DEAD and a private
\* kill_success event followed by a public night_elimination event are
\* appended; if no kill action exists at all, no status changes and the public
\* peaceful-night (night_result) event is appended.
C11_KillResolution ==
    [][NightStep =>
        LET acts == Appended(actions, actions')
            new == Appended(events, events')
            kill == ResolvedKill(acts)
            protect == ResolvedProtect(acts)
        IN  /\ (kill # NoneAction
                  /\ (protect = NoneAction \/ protect.target_id # kill.target_id)) =>
                /\ status' = [status EXCEPT ![kill.target_id] = "DEAD"]
                /\ Len(new) >= 2
                /\ new[Len(new) - 1].event_type = "kill_success"
                /\ ~new[Len(new) - 1].public
                /\ new[Len(new) - 1].about = kill.target_id
                /\ new[Len(new)].event_type = "night_elimination"
                /\ new[Len(new)].public
                /\ new[Len(new)].targets = <<kill.target_id>>
                /\ Positions(new, {"kill_failed", "night_result"}) = {}
            /\ kill = NoneAction =>
                /\ status' = status
                /\ Len(new) >= 1
                /\ new[Len(new)].event_type = "night_result"
                /\ new[Len(new)].public
                /\ new[Len(new)].outcome = "peaceful"
                /\ Positions(new, {"kill_success", "kill_failed",
                                   "night_elimination"}) = {}]_vars

\* a night in which the Doctor protected one player and the kill took another
C11_Witness ==
    /\ pc = "check_game_over"
    /\ current_phase = "NIGHT_ACTION"
    /\ Len(events) >= 3
    /\ events[Len(events)].event_type = "night_elimination"
    /\ events[Len(events) - 1].event_type = "kill_success"
    /\ events[Len(events) - 2].event_type = "protection"
    /\ status[events[Len(events)].about] = "DEAD"
    /\ status[events[Len(events) - 2].about] = "ALIVE"

\* rank of an action type in the resolution order
Rank(type) == CASE type = "investigate" -> 1 [] type = "protect" -> 2 [] type = "kill" -> 3

\* the investigation of the action round was resolved: reported to the
\* detective and, unless the target is a disguised Godfather, learnt
InvestigationResolved(inv, new) ==
    /\ \E i \in Positions(new, {"investigation"}) :
          new[i].targets = <<inv.actor_id>> /\ new[i].about = inv.target_id
    /\ ~(role[inv.target_id] = "GODFATHER" /\ config.godfather_appears_innocent)
          => known_roles'[inv.actor_id][inv.target_id] = role[inv.target_id]

\* C12: night actions are resolved in the order investigate, protect, kill,
\* whatever the order of submission: in the event log and in the 'action'
\* callbacks of one action round the investigation precedes the protection,
\* which precedes the kill outcome; the investigation is resolved even when the
\* detective or the investigated player is killed that night, and the
\* protection is in force when the kill is evaluated.
C12_ResolutionOrder ==
    [][NightStep =>
        LET acts == Appended(actions, actions')
            new == Appended(events, events')
            cb == Appended(action_callbacks, action_callbacks')
            inv == LastOf(acts, "DETECTIVE")
            protect == ResolvedProtect(acts)
            kill == ResolvedKill(acts)
            outcome == Positions(new, {"kill_success", "kill_failed",
                                       "night_elimination", "night_result"})
        IN  /\ \A i \in Positions(new, {"investigation"}) :
                  \A j \in Positions(new, {"protection"}) \cup outcome : i < j
            /\ \A j \in Positions(new, {"protection"}) : \A k \in outcome : j < k
            /\ \A i, j \in 1..Len(cb) :
                  i < j => Rank(cb[i].action_type) < Rank(cb[j].action_type)
            /\ cb = SelectSeq(<<inv, protect, kill>>, LAMBDA x : x # NoneAction)
            /\ inv # NoneAction => InvestigationResolved(inv, new)
            /\ protect # NoneAction =>
                  Cardinality(Positions(new, {"protection"})) = 1
            /\ (kill # NoneAction /\ protect # NoneAction
                  /\ kill.target_id = protect.target_id) => status' = status]_vars

\* a night in which the detective, submitting last, investigated the player
\* that killed it, and the doctor's protection was reported in between
C12_Witness ==
    /\ pc = "check_game_over"
    /\ current_phase = "NIGHT_ACTION"
    /\ Len(events) = 4
    /\ events[1].event_type = "investigation"
    /\ events[2].event_type = "protection"
    /\ events[3].event_type = "kill_success"
    /\ status[events[1].targets[1]] = "DEAD"
    /\ Len(actions) = 3
    /\ actions[1].action_type = "kill"
    /\ actions[3].action_type = "investigate"
    /\ known_roles[actions[3].actor_id][actions[3].target_id] = "MAFIA"

\* the investigated player is a Godfather under the innocent disguise
Disguised(t) == role[t] = "GODFATHER" /\ config.godfather_appears_innocent

\* the player died in this step and its role was revealed to everybody
RevealedDeath(x) ==
    status[x] = "ALIVE" /\ status'[x] = "DEAD" /\ config.reveal_role_on_death

\* C13: for an investigate action of detective D on target T, the reported
\* result is "innocent" if T's team is Village or T is the Godfather with
\* godfather_appears_innocent enabled, and "Mafia" otherwise; D's known_roles
\* gets T mapped to T's true role exactly when the case is not the Godfather
\* disguise (in the disguise case the investigation leaves known_roles as it
\* was; with the mechanic disabled the Godfather is reported "Mafia" and
\* learnt); the investigation event is private with targets exactly [D].  The
\* investigation changes no other entry of known_roles: the only other changes
\* of the night are the public reveal of the player killed.
C13_InvestigationResult ==
    [][NightStep =>
        LET acts == Appended(actions, actions')
            new == Appended(events, events')
            inv == LastOf(acts, "DETECTIVE")
            D == inv.actor_id
            T == inv.target_id
        IN  inv # NoneAction =>
              /\ Cardinality(Positions(new, {"investigation"})) = 1
              /\ \A i \in Positions(new, {"investigation"}) :
                    /\ ~new[i].public
                    /\ new[i].targets = <<D>>
                    /\ new[i].about = T
                    /\ new[i].outcome =
                          IF team(role[T]) = "VILLAGE" \/ Disguised(T)
                          THEN "innocent" ELSE "Mafia"
              /\ ~Disguised(T) => known_roles'[D][T] = role[T]
              /\ Disguised(T) =>
                    \/ known_roles'[D][T] = known_roles[D][T]
                    \/ RevealedDeath(T)
              /\ (role[T] = "GODFATHER" /\ ~config.godfather_appears_innocent) =>
                    \A i \in Positions(new, {"investigation"}) :
                        new[i].outcome = "Mafia"
              /\ \A p, q \in Players :
                    known_roles'[p][q] # known_roles[p][q] =>
                        \/ p = D /\ q = T /\ ~Disguised(T)
                        \/ RevealedDeath(q)]_vars

\* the detective investigated the Godfather under the disguise: reported
\* innocent, and the detective still does not know the Godfather's role
C13_Witness ==
    /\ pc = "check_game_over"
    /\ current_phase = "NIGHT_ACTION"
    /\ config.godfather_appears_innocent
    /\ Len(events) >= 1
    /\ events[1].event_type = "investigation"
    /\ role[events[1].about] = "GODFATHER"
    /\ events[1].outcome = "innocent"
    /\ known_roles[events[1].targets[1]][events[1].about] = None

\* the kill step's events of an event list
KillEvents(evs) == Positions(evs, {"kill_success", "kill_failed"})

\* C14: when both a Godfather action and a plain Mafia action exist in one
\* action round, the kill resolved is the Godfather's (its target is the one
\* killed or blocked) whatever the order of submission, and the plain Mafia
\* member's target is not affected; when only one of the two exists, that one
\* is resolved.
C14_GodfatherPrecedence ==
    [][NightStep =>
        LET acts == Appended(actions, actions')
            new == Appended(events, events')
            cb == Appended(action_callbacks, action_callbacks')
            gf == LastOf(acts, "GODFATHER")
            mafia == LastOf(acts, "MAFIA")
            resolved == IF gf # NoneAction THEN gf ELSE mafia
        IN  resolved # NoneAction =>
              /\ cb[Len(cb)] = resolved
              /\ Cardinality(KillEvents(new)) = 1
              /\ \A i \in KillEvents(new) : new[i].about = resolved.target_id
              /\ \A x \in Players \ {resolved.target_id} : status'[x] = status[x]
              /\ \A i \in 1..Len(new) : new[i].event_type = "night_elimination" =>
                    new[i].targets = <<resolved.target_id>>
              /\ (\A i \in KillEvents(new) : new[i].event_type = "kill_success")
                    => status'[resolved.target_id] = "DEAD"]_vars

\* the plain Mafia member submitted before the Godfather and named another
\* player: the Godfather's target died, the Mafia member's target lives
C14_Witness ==
    /\ pc = "check_game_over"
    /\ current_phase = "NIGHT_ACTION"
    /\ Len(actions) = 2
    /\ role[actions[1].actor_id] = "MAFIA"
    /\ role[actions[2].actor_id] = "GODFATHER"
    /\ actions[1].target_id # actions[2].target_id
    /\ status[actions[2].target_id] = "DEAD"
    /\ status[actions[1].target_id] = "ALIVE"

\* position of a player in the insertion order of GameState.players
OrderOf(p) == CHOOSE i \in 1..Len(PlayerOrder) : PlayerOrder[i] = p

\* C15: night actions are indexed by role: when more than one plain Mafia
\* member submits a kill in one action round and no Godfather action exists,
\* only the kill of the Mafia member processed last in the alive-player order
\* is retained and resolved; the targets named by the earlier Mafia members
\* are neither killed nor reported in any kill event.
C15_LastMafiaKillRetained ==
    [][NightStep =>
        LET acts == Appended(actions, actions')
            new == Appended(events, events')
            kills == {i \in 1..Len(acts) : role[acts[i].actor_id] = "MAFIA"}
            last == CHOOSE i \in kills : \A j \in kills : j <= i
        IN  (Cardinality(kills) > 1 /\ LastOf(acts, "GODFATHER") = NoneAction) =>
              /\ \A j \in kills : OrderOf(acts[j].actor_id) <= OrderOf(acts[last].actor_id)
              /\ Cardinality(KillEvents(new)) = 1
              /\ \A i \in KillEvents(new) : new[i].about = acts[last].target_id
              /\ \A j \in kills :
                    acts[j].target_id # acts[last].target_id =>
                        /\ status'[acts[j].target_id] = status[acts[j].target_id]
                        /\ \A i \in 1..Len(new) :
                              /\ new[i].about # acts[j].target_id
                              /\ new[i].event_type = "night_elimination" =>
                                    new[i].targets # <<acts[j].target_id>>]_vars

\* two Mafia members named different players: the one named by the second is
\* dead, the one named by the first is alive
C15_Witness ==
    /\ pc = "check_game_over"
    /\ current_phase = "NIGHT_ACTION"
    /\ Len(actions) = 2
    /\ role[actions[1].actor_id] = "MAFIA"
    /\ role[actions[2].actor_id] = "MAFIA"
    /\ actions[1].target_id # actions[2].target_id
    /\ status[actions[2].target_id] = "DEAD"
    /\ status[actions[1].target_id] = "ALIVE"
    /\ events[Len(events)].event_type = "night_elimination"

\* C16: after every night-action resolution, whatever its outcome, every
\* player's protected flag is false; hence at every phase boundary (in every
\* state between two steps of the game) no player is protected and a
\* protection never carries over to a later night.
C16_ProtectionReset == \A p \in DOMAIN protected : ~protected[p]

\* a night in which the Doctor's protection was applied and then the kill of
\* another player succeeded, ready for the win check
C16_Witness ==
    /\ pc = "check_game_over"
    /\ current_phase = "NIGHT_ACTION"
    /\ Positions(events, {"protection"}) # {}
    /\ Positions(events, {"kill_success"}) # {}
    /\ \E i \in 1..Len(actions) :
          actions[i].action_type = "protect" /\ ~protected[actions[i].target_id]

\* the id a reply names resolves to no alive player: unknown, or already dead
Unresolvable(st, t) == t # NoAction /\ (t \notin Players \/ ~is_alive(st, t))

\* the step is one action round of the night phase, raising or not
ActionRound == pc = "run_phase" /\ current_phase = "NIGHT_ACTION"

ActionsOf(p, r) ==
    {i \in 1..Len(actions) : actions[i].actor_id = p /\ actions[i].round_num = r}

C18_State ==
    /\ \A p \in Players : \A r \in 1..current_round :
          Cardinality(ActionsOf(p, r)) <= config.action_time
    /\ \A i \in 1..Len(actions) :
          /\ role[actions[i].actor_id] # "VILLAGER"
          /\ actions[i].action_type = action_type(role[actions[i].actor_id])

C18_Step ==
    ActionRound =>
        LET acts == Appended(actions, actions')
        IN  /\ \A i, j \in 1..Len(acts) :
                  acts[i].actor_id = acts[j].actor_id => i = j
            /\ \A i \in 1..Len(acts) :
                  /\ is_alive(status, acts[i].actor_id)
                  /\ role[acts[i].actor_id] \in {"MAFIA", "GODFATHER", "DOCTOR", "DETECTIVE"}
                  /\ acts[i].round_num = current_round

----------------------------------------------------------------------------
(* Properties of initialize_game                                           *)

\* the number of players initialize_game is asked to create
NamesGiven == Len(player_names)

\* C19: for any role distribution whose counts sum to N and any list of N
\* names, initialize_game creates exactly N players with ids player_1..player_N
\* in name order, all ALIVE, with exactly the configured number of players of
\* each role, whatever the shuffle; the state starts at round 1 in
\* DAY_DISCUSSION with game_over false and exactly one public game_start event
\* in the log.
C19_InitializeGame ==
    [][(pc = "initialize_game" /\ NamesGiven = total_roles(config.roles)) =>
        /\ pc' = "run_phase"
        /\ DOMAIN role' = {player_id(i) : i \in 1..NamesGiven}
        /\ DOMAIN status' = DOMAIN role'
        /\ DOMAIN name' = DOMAIN role'
        /\ Cardinality(DOMAIN role') = NamesGiven
        /\ \A i \in 1..NamesGiven : name'[player_id(i)] = player_names[i]
        /\ \A p \in DOMAIN role' : status'[p] = "ALIVE"
        /\ \A r \in PlayerRole :
              Cardinality({p \in DOMAIN role' : role'[p] = r}) = config.roles[r]
        /\ current_round' = 1
        /\ current_phase' = "DAY_DISCUSSION"
        /\ ~game_over'
        /\ Len(events') = 1
        /\ events'[1].event_type = "game_start"
        /\ events'[1].public]_vars

\* a game of four players, two of them with the same name, whose roles the
\* shuffle left in another order than the role distribution lists them
C19_Witness ==
    /\ pc = "run_phase"
    /\ DOMAIN role = {"player_1", "player_2", "player_3", "player_4"}
    /\ role["player_1"] = "GODFATHER"
    /\ role["player_2"] = "VILLAGER"
    /\ role["player_3"] = "MAFIA"
    /\ role["player_4"] = "VILLAGER"
    /\ name["player_1"] = name["player_3"]
    /\ config.roles["VILLAGER"] = 2

\* C20: immediately after initialize_game, for every role assignment, every
\* Mafia-aligned player's known_roles contains itself and every other
\* Mafia-aligned player mapped to its true role, and every Village-aligned
\* player's known_roles contains exactly its own entry.
C20_KnownRolesSeeded ==
    [][(pc = "initialize_game" /\ pc' = "run_phase") =>
        \A p \in DOMAIN role' :
            /\ known_roles'[p][p] = role'[p]
            /\ team(role'[p]) = "MAFIA" =>
                  \A q \in DOMAIN role' :
                      team(role'[q]) = "MAFIA" => known_roles'[p][q] = role'[q]
            /\ team(role'[p]) = "VILLAGE" =>
                  \A q \in DOMAIN role' \ {p} : known_roles'[p][q] = None]_vars

\* the sum of the configured role counts
ConfiguredRoles ==
    config.roles["VILLAGER"] + config.roles["MAFIA"] + config.roles["DOCTOR"]
        + config.roles["DETECTIVE"] + config.roles["GODFATHER"]

\* nothing of a game exists: no player, no agent (no memory), no entry in a log
NothingCreated ==
    /\ game_state_unset
    /\ DOMAIN role = {} /\ DOMAIN status = {} /\ DOMAIN name = {}
    /\ DOMAIN known_roles = {}
    /\ DOMAIN memory = {} /\ DOMAIN saved_memory = {}
    /\ events = <<>> /\ votes = <<>> /\ actions = <<>> /\ messages = <<>>
    /\ \A k \in callback_keys : \A i \in 1..Len(received[k]) : received[k][i] = <<>>

C21_State ==
    /\ pc = "initialize_game" => NothingCreated /\ error = NoError
    /\ NamesGiven # ConfiguredRoles =>
          /\ NothingCreated
          /\ pc \in {"initialize_game", "raised"}
          /\ ~game_over

C21_Step ==
    /\ (pc = "initialize_game" /\ NamesGiven # ConfiguredRoles) =>
          /\ pc' = "raised"
          /\ error' = ValueError(ConfiguredRoles, NamesGiven)
    /\ (pc = "raised" /\ NamesGiven # ConfiguredRoles) =>
          /\ pc' = "raised"
          /\ error'.type = "AttributeError"

\* C21: if the role counts do not sum to the number of player names,
\* initialize_game raises a ValueError naming the expected and the actual
\* count and creates nothing: game_state stays unset and no player, agent or
\* event exists; a later run_game does not run a phase on a partial state, it
\* raises at once.
C21_ConfigurationErrorCreatesNothing == [](C21_State) /\ [][C21_Step]_vars

\* three roles were configured for two names, initialize_game raised, and the
\* run_game called afterwards raised as well
C21_Witness ==
    /\ pc = "raised"
    /\ error.type = "AttributeError"
    /\ NamesGiven = 2
    /\ ConfiguredRoles = 3
    /\ NothingCreated

----------------------------------------------------------------------------
(* Properties of the visibility query                                      *)

\* the positions of the log evs whose event player P may see
VisibleAt(evs, P) ==
    {i \in 1..Len(evs) :
        evs[i].public \/ \E k \in 1..Len(evs[i].targets) : evs[i].targets[k] = P}

\* the n-th smallest element of a set of positions
NthOf(S, n) == CHOOSE i \in S : Cardinality({j \in S : j <= i}) = n

\* C22: for every event log and every player id P, get_player_events(P)
\* returns exactly the events that are public or list P among their targets,
\* in log order; so a private event with targets = [P1] is returned for P1
\* and for no other player, and a public event is returned for every player.
C22_PlayerEventsVisibility ==
    [][(pc = "call" /\ pc' = "called") =>
        LET P == result'.player_id
            got == result'.returned
            V == VisibleAt(events, P)
        IN  /\ Len(got) = Cardinality(V)
            /\ \A n \in 1..Len(got) : got[n] = events[NthOf(V, n)]
            /\ \A i \in 1..Len(events) :
                  /\ events[i].public => i \in V
                  /\ (~events[i].public /\ Len(events[i].targets) = 1) =>
                        (i \in V <=> events[i].targets = <<P>>)
                  /\ i \notin V => \A n \in 1..Len(got) : got[n] # events[i]]_vars

\* a query for player_2 on a log holding a private event for player_1, then a
\* public event, then a private event for player_2: the last two are returned
C22_Witness ==
    /\ pc = "called"
    /\ result.player_id = "player_2"
    /\ Len(events) = 3
    /\ ~events[1].public /\ events[1].targets = <<"player_1">>
    /\ events[2].public /\ events[2].targets = <<>>
    /\ ~events[3].public /\ events[3].targets = <<"player_2">>
    /\ result.returned = <<events[2], events[3]>>

----------------------------------------------------------------------------
(* Properties of the discussion phases                                     *)

\* the alive players of the Mafia team
AliveMafia == {p \in Players : is_alive(status, p) /\ team(role[p]) = "MAFIA"}

\* the players a list of ids names
Named(list) == {list[i] : i \in 1..Len(list)}

\* the senders of the k-th round of n turns each among the messages msgs
RoundSenders(msgs, k, n) == [i \in 1..n |-> msgs[(k - 1) * n + i].sender_id]

\* the step is one Night-Mafia-Discussion phase
MafiaTalkStep == pc = "run_phase" /\ current_phase = "NIGHT_MAFIA_DISCUSSION"

\* C23: the Night-Mafia-Discussion phase appends no message when no
\* Mafia-aligned player is alive; otherwise in each configured round each alive
\* Mafia-aligned player speaks exactly once, and every such Message has
\* public = false and a recipient list equal to exactly the set of alive
\* Mafia-aligned players, so get_player_messages of any Village-aligned player
\* (and of any dead Mafia player, who is never the sender) never returns it.
C23_MafiaDiscussionPrivate ==
    [][MafiaTalkStep =>
        LET new == Appended(messages, messages')
            n == Cardinality(AliveMafia)
            R == config.mafia_discussion_rounds
        IN  /\ messages' = messages \o new
            /\ AliveMafia = {} => new = <<>>
            /\ Len(new) = R * n
            /\ \A k \in 1..R :
                  /\ Named(RoundSenders(new, k, n)) = AliveMafia
                  /\ \A i, j \in 1..n :
                        RoundSenders(new, k, n)[i] = RoundSenders(new, k, n)[j] => i = j
            /\ \A i \in 1..Len(new) :
                  /\ ~new[i].public
                  /\ Named(new[i].recipients) = AliveMafia
                  /\ Len(new[i].recipients) = n
                  /\ new[i].phase = "NIGHT_MAFIA_DISCUSSION"
                  /\ new[i].round_num = current_round
                  /\ \A p \in Players \ AliveMafia :
                        LET seen == get_player_messages(messages', p)
                        IN  \A m \in 1..Len(seen) : seen[m] # new[i]
                  /\ \A p \in AliveMafia :
                        LET seen == get_player_messages(messages', p)
                        IN  \E m \in 1..Len(seen) : seen[m] = new[i]]_vars

\* two rounds of a mafia discussion ran with one Mafia-aligned player alive and
\* its teammate dead: the dead teammate and the Villager see no message
C23_Witness ==
    /\ pc = "check_game_over"
    /\ current_phase = "NIGHT_MAFIA_DISCUSSION"
    /\ Len(messages) = 2
    /\ \E p, q \in Players :
          /\ team(role[p]) = "MAFIA" /\ ~is_alive(status, p)
          /\ team(role[q]) = "MAFIA" /\ is_alive(status, q)
          /\ messages[1].recipients = <<q>>
          /\ get_player_messages(messages, p) = <<>>
          /\ get_player_messages(messages, q) = messages
    /\ \E v \in Players :
          /\ team(role[v]) = "VILLAGE" /\ is_alive(status, v)
          /\ get_player_messages(messages, v) = <<>>

\* the step is one Day-Discussion phase
DayTalkStep == pc = "run_phase" /\ current_phase = "DAY_DISCUSSION"

\* C26: in a Day-Discussion phase with R configured discussion rounds and A
\* alive players, each alive player speaks exactly once per discussion round
\* in the turn order (the insertion order of the players), so exactly R*A
\* Messages are appended, each with public = true, phase DAY_DISCUSSION and the
\* current round, and each is delivered to the message callbacks; dead players
\* never speak.
C26_DayDiscussionMessages ==
    [][DayTalkStep =>
        LET new == Appended(messages, messages')
            alive == alive_players(status)
            A == Len(alive)
            R == config.discussion_rounds
        IN  /\ messages' = messages \o new
            /\ Len(new) = R * A
            /\ \A k \in 1..R : RoundSenders(new, k, A) = alive
            /\ \A i \in 1..Len(new) :
                  /\ new[i].public
                  /\ new[i].phase = "DAY_DISCUSSION"
                  /\ new[i].round_num = current_round
                  /\ is_alive(status, new[i].sender_id)
            /\ Len(callbacks["message"]) > 0
            /\ \A k \in 1..Len(callbacks["message"]) :
                  received'["message"][k] = received["message"][k] \o new
            /\ status' = status]_vars

\* two discussion rounds with two of three players alive: four messages, the
\* two speakers alternating in insertion order, all delivered to the callback
C26_Witness ==
    /\ pc = "check_game_over"
    /\ current_phase = "DAY_DISCUSSION"
    /\ config.discussion_rounds = 2
    /\ status = [p \in Players |-> IF p = "player_2" THEN "DEAD" ELSE "ALIVE"]
    /\ Len(messages) = 4
    /\ messages[1].sender_id = "player_1" /\ messages[2].sender_id = "player_3"
    /\ messages[3].sender_id = "player_1" /\ messages[4].sender_id = "player_3"
    /\ messages[1].content # messages[3].content
    /\ received["message"][1] = messages

----------------------------------------------------------------------------
(* Properties of what a death reveals                                      *)

\* C24: the private kill_failed and kill_success events of a night are visible
\* to all alive Mafia-aligned players and to nobody else: their target list is
\* exactly the set of Mafia-aligned players that are alive at that point (no
\* Village-aligned player and no dead Mafia player is in it).
C24_KillEventTargets ==
    [][NightStep =>
        LET new == Appended(events, events')
        IN  \A i \in KillEvents(new) :
              /\ ~new[i].public
              /\ \A p \in Players :
                    (team(role[p]) = "MAFIA" /\ is_alive(status', p))
                        => in_list(p, new[i].targets)
              /\ \A p \in Named(new[i].targets) :
                    team(role[p]) = "MAFIA" /\ is_alive(status, p)]_vars

\* the players that die in the step
Dying == {x \in Players : status[x] = "ALIVE" /\ status'[x] = "DEAD"}

\* in the step, detective q was told the result of investigating y
Investigated(q, y) ==
    \E i \in Positions(Appended(events, events'), {"investigation"}) :
        /\ Appended(events, events')[i].targets = <<q>>
        /\ Appended(events, events')[i].about = y

C25_State ==
    config.reveal_role_on_death =>
        \A x \in Players : ~is_alive(status, x) =>
            \A q \in Players : is_alive(status, q) => known_roles[q][x] = role[x]

C25_Step ==
    /\ Dying # {} =>
          \/ pc = "run_phase" /\ current_phase = "DAY_VOTING"
          \/ pc = "run_phase" /\ current_phase = "NIGHT_ACTION"
    /\ \A x \in Dying :
          \E i \in Positions(Appended(events, events'),
                             {"elimination", "night_elimination"}) :
              /\ Appended(events, events')[i].public
              /\ Appended(events, events')[i].targets = <<x>>
              /\ Appended(events, events')[i].outcome =
                    IF config.reveal_role_on_death THEN role[x] ELSE ""
    /\ (config.reveal_role_on_death /\ Dying # {}) =>
          \A x \in Dying : \A q \in Players :
              is_alive(status', q) => known_roles'[q][x] = role[x]
    /\ ~config.reveal_role_on_death =>
          \A q, y \in Players :
              known_roles'[q][y] # known_roles[q][y] => Investigated(q, y)
    /\ \A q, y \in Players :
          known_roles[q][y] # None => known_roles'[q][y] = known_roles[q][y]

\* C25: when a player dies (by vote or by night kill) and reveal_role_on_death
\* is enabled, every living player's known_roles maps the dead player to that
\* player's true role from then on; when the mechanic is disabled, a death
\* changes no player's known_roles (the only change of a night is what the
\* detective learns by investigating), and the elimination event reveals the
\* death without the role.
C25_RevealRoleOnDeath == [](C25_State) /\ [][C25_Step]_vars

\* with the reveal disabled a player was voted out and nobody learnt its role
C25_Witness ==
    /\ ~config.reveal_role_on_death
    /\ current_phase = "DAY_VOTING"
    /\ pc = "check_game_over"
    /\ \E x \in Players :
          /\ ~is_alive(status, x)
          /\ events[Len(events)].event_type = "elimination"
          /\ events[Len(events)].targets = <<x>>
          /\ events[Len(events)].outcome = ""
          /\ \A q \in Players \ {x} : known_roles[q][x] = None

\* with the reveal enabled a player died in the first action round of a night
\* and is still known to the living after the second
C25_WitnessEnabled ==
    /\ config.reveal_role_on_death
    /\ current_phase = "NIGHT_ACTION"
    /\ pc = "check_game_over"
    /\ \E i \in Positions(events, {"night_elimination"}) :
          /\ i < Len(events) - 1
          /\ \A q \in Players : is_alive(status, q) =>
                known_roles[q][events[i].about] = role[events[i].about]

----------------------------------------------------------------------------
(* Properties of the turn order                                            *)

\* the step is the advance_phase that enters a Day-Discussion phase
EntersDayDiscussion ==
    /\ pc = "advance_phase"
    /\ next_phase(current_phase, current_round) = "DAY_DISCUSSION"

\* C27: the turn order is the player insertion order in round 1 and is
\* reversed at the start of every Day-Discussion phase after round 1, so the
\* speaking order of the alive players alternates from one round to the next,
\* and the transition into Day-Discussion completes: the round is incremented
\* and the phase entered, with the reversed order in place.
C27_TurnOrderReversed ==
    [][/\ EntersDayDiscussion =>
             /\ pc' = "run_phase"
             /\ current_phase' = "DAY_DISCUSSION"
             /\ current_round' = current_round + 1
             /\ error' = NoError
       /\ (DayTalkStep /\ current_round = 1 /\ config.discussion_rounds > 0) =>
             LET new == Appended(messages, messages')
                 A == Len(alive_players(status))
             IN  /\ Len(new) >= A
                 /\ RoundSenders(new, 1, A) = alive_players(status)]_vars

----------------------------------------------------------------------------
(* Properties of the observers                                             *)

\* what has been appended to the log an event type reports on
LogOf(event_type) ==
    CASE event_type = "message" -> messages
      [] event_type = "game_event" -> events
      [] event_type = "vote" -> votes
      [] event_type = "action" -> action_callbacks

C28_State ==
    \A k \in {"message", "game_event", "vote", "action"} :
        \A i \in 1..Len(callbacks[k]) : received[k][i] = LogOf(k)

C28_Step ==
    /\ pc = "run_phase" => pc' \in {"run_phase", "check_game_over"}
    /\ pc = "check_game_over" => pc' \in {"advance_phase", "returned"}
    /\ pc' = "raised" => EntersDayDiscussion /\ error' = AttributeError
    /\ \A k \in {"message", "game_event", "vote", "action"} :
          Len(LogOf(k)') >= Len(LogOf(k))

\* C28: a registered observer callback that throws never aborts the game: the
\* exception is caught per callback, so every callback of an emission,
\* throwing or not and whatever was registered before it, is invoked with
\* every entity emitted, each entity is in its log, and every phase and every
\* win check runs to its end whatever the callbacks do.
C28_ThrowingCallbackNeverAborts == [](C28_State) /\ [][C28_Step]_vars

\* a voting round eliminated a player while the first of two callbacks under
\* 'vote' threw on each of the votes; the second was invoked with each vote
C28_Witness ==
    /\ callbacks["vote"] = <<TRUE, FALSE>>
    /\ current_phase = "DAY_VOTING"
    /\ pc = "check_game_over"
    /\ Len(votes) = 3
    /\ received["vote"][2] = votes
    /\ \E p \in Players : ~is_alive(status, p)

\* the entities produced so far that an event type reports on
Produced(event_type) ==
    IF event_type = "vote_result"
    THEN SelectSeq(events, LAMBDA e : e.event_type = "vote_result")
    ELSE LogOf(event_type)

\* C29: a callback registered under any of the keys message, game_event,
\* action, vote, vote_result receives the entity at the moment it is produced;
\* a callback registered under 'vote_result' is invoked whenever a voting
\* round produces its outcome (an elimination or a tie).
C29_EveryKeyReceives ==
    \A k \in callback_keys :
        \A i \in 1..Len(callbacks[k]) :
            Len(received[k][i]) = Len(Produced(k))

----------------------------------------------------------------------------
(* Properties of the agent memory                                          *)

\* the entries of kind among what was ingested
SavedOfKind(saved, kind) == SelectSeq(saved, LAMBDA x : x[1] = kind)

\* the entries of list after its first n
After(list, n) == SubSeq(list, n + 1, Len(list))

\* the memory entries of the entries of player p visible now that no earlier
\* call ingested, the events before the messages
NewlyVisible(p) ==
    LET evs == After(get_player_events(events, p),
                     Len(SavedOfKind(saved_memory[p], "event")))
        msgs == After(get_player_messages(messages, p),
                      Len(SavedOfKind(saved_memory[p], "message")))
    IN  [i \in 1..Len(evs) |-> event_entry(evs[i])]
        \o [i \in 1..Len(msgs) |-> message_entry(msgs[i], name)]

\* the most recent K entries of a memory, all of them when no limit is set
MostRecent(mem, K) ==
    IF K = 0 \/ Len(mem) <= K THEN mem ELSE After(mem, Len(mem) - K)

\* C30: update_memory ingests every newly visible entry exactly once: after
\* the call each event returned by get_player_events and each message returned
\* by get_player_messages that no earlier call ingested has been appended to
\* the player's memory once (also when two distinct entries carry equal field
\* values), a repeated call on an unchanged state appends nothing, and with
\* memory_limit K the memory holds at most K entries, the most recent ones.
C30_IngestsEachNewEntryOnce ==
    [][(events' = events /\ messages' = messages) =>
          \A p \in DOMAIN memory :
              /\ memory'[p] =
                    MostRecent(memory[p] \o NewlyVisible(p), config.memory_limit)
              /\ Len(saved_memory'[p]) =
                    Len(get_player_events(events, p))
                    + Len(get_player_messages(messages, p))]_vars

----------------------------------------------------------------------------
(* Properties of the game stepped from the web UI                          *)

\* C31: there is only one writer of the GameState at any time: at most one
\* phase execution (run_phase followed by advance_phase) is in progress on a
\* game's state, also when a further next_phase request arrives while the
\* background execution of the previous one has not finished.
C31_OneExecutionInProgress == Cardinality(in_progress(executions)) <= 1

\* the entries of the given types among the events a step appended
AppendedOfType(types) == Positions(Appended(events, events'), types)

----------------------------------------------------------------------------
(* Properties of every run: what never changes and what only grows         *)

\* the number of alive players
alive_count(st) == Len(alive_players(st))

\* C33: player death is permanent and players are never destroyed: a player
\* whose status is DEAD never becomes ALIVE again, the set of player ids and
\* every player's role never change after initialization, and therefore the
\* alive Mafia count, the alive Village count and the total alive count never
\* increase.
C33_DeathIsPermanent ==
    [][/\ \A p \in Players : status[p] = "DEAD" => status'[p] = "DEAD"
       /\ DOMAIN status' = DOMAIN status
       /\ DOMAIN role' = DOMAIN role
       /\ role' = role
       /\ alive_mafia_count(role', status') <= alive_mafia_count(role, status)
       /\ alive_village_count(role', status') <= alive_village_count(role, status)
       /\ alive_count(status') <= alive_count(status)]_vars

\* a night of two action rounds killed a player in each: the first is still
\* dead after the second
C33_Witness ==
    /\ current_phase = "NIGHT_ACTION"
    /\ pc = "check_game_over"
    /\ Cardinality(Positions(events, {"night_elimination"})) = 2
    /\ alive_count(status) = 1

\* C34: a dead player takes no further part: every Message, Vote and Action
\* appended to the logs has a sender / voter / actor that was ALIVE at the
\* moment it was recorded, and after a player's status becomes DEAD that
\* player's agent is never again asked to speak, vote or act, in that phase or
\* any later one.
C34_DeadTakeNoPart ==
    [][LET msgs == Appended(messages, messages')
           vts == Appended(votes, votes')
           acts == Appended(actions, actions')
       IN  /\ \A i \in 1..Len(msgs) : status[msgs[i].sender_id] = "ALIVE"
           /\ \A i \in 1..Len(vts) : status[vts[i].voter_id] = "ALIVE"
           /\ \A i \in 1..Len(acts) : status[acts[i].actor_id] = "ALIVE"
           /\ \A p \in Players : status[p] = "DEAD" =>
                 /\ ballots' # ballots => ballots'[p] = NotAsked
                 /\ replies' # replies => replies'[p] \in {NotAsked, NoAction}]_vars

\* a player died in the first action round of a night, and in the second the
\* others acted
C34_Witness ==
    /\ current_phase = "NIGHT_ACTION"
    /\ pc = "check_game_over"
    /\ config.action_time = 2
    /\ \E i \in Positions(events, {"night_elimination"}) :
          \E j \in 1..Len(actions) :
              /\ actions[j].actor_id # events[i].about
              /\ \A k \in j..Len(actions) : actions[k].actor_id # events[i].about
              /\ \E k \in 1..(j - 1) : actions[k].actor_id = events[i].about

----------------------------------------------------------------------------
(* Properties of role knowledge                                            *)

C35_State ==
    \A p \in Players :
        /\ known_roles[p][p] = role[p]
        /\ \A q \in Players : known_roles[p][q] # None => known_roles[p][q] = role[q]

C35_Step ==
    \A p, q \in Players :
        known_roles[p][q] # None => known_roles'[p][q] = known_roles[p][q]

\* C35: known_roles is always sound: in every reachable state, for all players
\* p and q, if q is a key of p's known_roles then the stored role equals q's
\* true role, and p's own id is always a key of p's known_roles; no operation
\* ever removes an entry or overwrites it with a different role.
C35_KnownRolesSound == [](C35_State) /\ [][C35_Step]_vars

\* the detective investigated a player who is not a disguised Godfather and
\* holds that player's true role
C35_Witness ==
    \E i \in Positions(events, {"investigation"}) :
        LET detective == events[i].targets[1]
            target == events[i].about
        IN  /\ role[target] # "GODFATHER"
            /\ known_roles[detective][target] = role[target]
            /\ pc = "check_game_over"

\* detective p was told the result of investigating q at some point
InvestigatedEver(p, q) ==
    \E i \in Positions(events, {"investigation"}) :
        events[i].targets = <<p>> /\ events[i].about = q

\* the Village-aligned players
Village == {p \in Players : team(role[p]) = "VILLAGE"}

\* C36: role knowledge does not leak to the Village: in every reachable state
\* the keys of a Village-aligned player's known_roles are confined to the
\* player itself, players that are dead, and (for the Detective only) players
\* the Detective has investigated; and while godfather_appears_innocent is
\* enabled, no Village-aligned player's known_roles contains a Godfather who
\* is still alive.
C36_NoLeakToVillage ==
    \A p \in Village :
        /\ \A q \in Players :
              known_roles[p][q] # None =>
                 \/ q = p
                 \/ ~is_alive(status, q)
                 \/ role[p] = "DETECTIVE" /\ InvestigatedEver(p, q)
        /\ config.godfather_appears_innocent =>
              \A q \in Players :
                  (role[q] = "GODFATHER" /\ is_alive(status, q)) =>
                      known_roles[p][q] = None

\* with the disguise enabled the Detective investigated a Godfather who is
\* still alive, and holds no entry for that player
C36_Witness ==
    /\ config.godfather_appears_innocent
    /\ pc = "check_game_over"
    /\ \E p \in Village, q \in Players :
          /\ role[p] = "DETECTIVE"
          /\ role[q] = "GODFATHER"
          /\ is_alive(status, q)
          /\ InvestigatedEver(p, q)
          /\ known_roles[p][q] = None

----------------------------------------------------------------------------
(* Properties of the logs and of the rounds                                *)

\* the players whose status a step changes
status_changed == {p \in Players : status'[p] # status[p]}

\* C37: deaths happen one at a time and in two places only: a voting round
\* and a night-action round each change the status of at most one player, and
\* no other step (a discussion with its reactions, advance_phase, the win
\* check, the registration of a callback) changes the status of any player
C37_DeathsOneAtATime ==
    [][/\ Cardinality(status_changed) <= 1
       /\ status_changed # {} =>
             /\ pc = "run_phase"
             /\ current_phase \in {"DAY_VOTING", "NIGHT_ACTION"}
             /\ ballots' # ballots \/ replies' # replies]_vars

\* two voting rounds of one phase have eliminated a player each
C37_Witness ==
    /\ current_phase = "DAY_VOTING"
    /\ pc = "check_game_over"
    /\ config.voting_time = 2
    /\ Cardinality({p \in Players : status[p] = "DEAD"}) = 2

\* the log old is an initial part of the log new
IsPrefix(old, new) ==
    /\ Len(old) <= Len(new)
    /\ SubSeq(new, 1, Len(old)) = old

\* the round stamps along a log never decrease and never exceed current_round
stamps_ordered(log) ==
    /\ \A i, j \in 1..Len(log) : i <= j => log[i].round_num <= log[j].round_num
    /\ \A i \in 1..Len(log) : log[i].round_num <= current_round

\* every entry a step appends to a log bears the round current after the step
stamped_current(old, new) ==
    \A i \in (Len(old) + 1)..Len(new) : new[i].round_num = current_round'

\* C38: the four logs are append-only (each log before a step is an initial
\* part of the log after it), every entry appended bears the round that is
\* current when it is appended, and so the round stamps along each log are
\* non-decreasing and never exceed current_round
C38_LogsAppendOnly ==
    /\ [](/\ stamps_ordered(events) /\ stamps_ordered(votes)
          /\ stamps_ordered(actions) /\ stamps_ordered(messages))
    /\ [][/\ IsPrefix(events, events') /\ IsPrefix(votes, votes')
          /\ IsPrefix(actions, actions') /\ IsPrefix(messages, messages')
          /\ stamped_current(events, events') /\ stamped_current(votes, votes')
          /\ stamped_current(actions, actions')
          /\ stamped_current(messages, messages')
          /\ current_round' >= current_round]_vars

\* each of the four logs has grown, the vote log past Votes of an earlier round
C38_Witness ==
    /\ Len(events) > 0 /\ Len(actions) > 0 /\ Len(messages) > 0
    /\ \E i, j \in 1..Len(votes) : votes[i].round_num < votes[j].round_num
    /\ \E i \in 1..Len(events) : events[i].event_type = "phase_change"

----------------------------------------------------------------------------
(* Properties of the tally                                                 *)

\* the step is a voting round: the alive players have been asked for a ballot
VotingRound ==
    /\ pc = "run_phase" /\ current_phase = "DAY_VOTING"
    /\ \E p \in Players : ballots'[p] # NotAsked

\* the voters whose ballot of this voting round is valid: an alive voter
\* naming an alive player other than itself
valid_voters ==
    {p \in Players : /\ is_alive(status, p)
                     /\ ballots'[p] \in Players \ {p}
                     /\ is_alive(status, ballots'[p])}

\* the valid ballots of this voting round that name q
ballots_for(q) == Cardinality({p \in valid_voters : ballots'[p] = q})

\* the players no player has more valid ballots of this voting round than
round_leaders ==
    {q \in Players : /\ ballots_for(q) > 0
                     /\ \A r \in Players : ballots_for(r) <= ballots_for(q)}

----------------------------------------------------------------------------
(* Properties of termination                                               *)

\* the number of players that have died
dead_count(st) == Cardinality({p \in Players : st[p] = "DEAD"})

\* run_game is over: it has returned or what it raised has left it
run_game_ended == pc \in {"returned", "raised"}

\* C39: whenever the win check returns false, at least one Mafia-aligned
\* player is alive and strictly more Village-aligned than Mafia-aligned
\* players are alive (so at least 3 players are alive); run_game ends only
\* through the win check, with game_over = TRUE and after at most N - 2 deaths
\* for N players
C39_EndsThroughWinCheck ==
    /\ (pc = "advance_phase" /\ ~ret) =>
          /\ alive_mafia_count(role, status) >= 1
          /\ alive_village_count(role, status) > alive_mafia_count(role, status)
          /\ alive_count(status) >= 3
    /\ run_game_ended =>
          /\ game_over
          /\ dead_count(status) <= Cardinality(Players) - 2

====
